---- MODULE Spec2Model ----
(***************************************************************************)
(* A model of the JARVIS orchestration core:                               *)
(*   - the reminder store, create_reminder and the background              *)
(*     reminder_scheduler thread     (src/backend/tools/localtools.py)     *)
(*   - RemoteToolsManager            (src/backend/tools/remotetools.py)    *)
(*   - ContextManager                (src/backend/context_manager.py)      *)
(*                                                                         *)
(* Time is the wall clock in seconds since midnight of day 0.  A stored    *)
(* "%Y-%m-%d %H:%M" string is modelled by the index of the minute it       *)
(* names, so that formatting drops the seconds as strftime does.           *)
(***************************************************************************)
EXTENDS Integers, Sequences, FiniteSets, TLC

----------------------------------------------------------------------------
(* Bounds of the model *)

\* the clock stops advancing here
MaxTime == 120
\* seconds the clock advances in one Tick
TickSeconds == 30
\* create_reminder calls that parse successfully
MaxCreates == 2
\* length of the stores the single-writer specification starts from
MaxStore == 2
\* calls of start_reminder_scheduler
MaxStarts == 2

----------------------------------------------------------------------------
(* Program constants *)

\* the firing window of reminder_scheduler: 0 <= elapsed <= 60
FireWindow == 60
\* time.sleep(30) at the end of a scheduler cycle
CycleSleep == 30
\* time.sleep(60) in the except clause of a scheduler cycle
ErrorSleep == 60
SecondsPerMinute == 60
SecondsPerHour == 3600
SecondsPerDay == 86400

----------------------------------------------------------------------------
(* State *)

\* the reminder store and its two threads
VARIABLES
    now,          \* wall clock, seconds
    file,         \* reminders.json: [valid, reminders, len, readable,
                  \* writable]; ~valid when json.load raises on its text,
                  \* len the characters it holds, ~readable when
                  \* open(..., "r") raises on it, ~writable when
                  \* open(..., "w") raises on it
    running,      \* localtools.reminder_scheduler_running
    spc,          \* per scheduler thread: "none" (not created), "check",
                  \* "scan", "save", "write", "done" (left its loop)
    sLocal,       \* per thread: the `reminders` list of its current cycle
    sLoaded,      \* history: that list as load_reminders() returned it
    sNow,         \* per thread: the `now` of its current cycle
    sIdx,         \* per thread: position of the for loop in sLocal
    wakeAt,       \* per thread: the time its sleep ends
    fpc,          \* foreground create_reminder: "idle", "save", "write"
    fLocal,       \* create_reminder's `reminders` list
    fResult,      \* what the last create_reminder returned
    nCreates,     \* number of create_reminder calls that parsed their time
    created,      \* history: per task, when and how it was created
    written,      \* history: tasks whose record create_reminder has saved
    everNotified, \* history: <<id, task>> persisted with notified = True
    events,       \* history: notifications shown, in order
    failed        \* history: a save_reminders call or a scheduler cycle has
                  \* raised

schedVars == <<now, file, running, spc, sLocal, sLoaded, sNow, sIdx, wakeAt,
               fpc, fLocal, fResult, nCreates, created, written,
               everNotified, events, failed>>

\* one RemoteToolsManager
VARIABLES
    tools,        \* RemoteToolsManager.tools: the LangChain tools, in order
    tool_configs, \* RemoteToolsManager.tool_configs: name -> entry as received
    last,         \* history: the last call on the manager and what it returned
    prev,         \* history: the call before, when both were invocations
    remote_tools_manager, \* model.py: FALSE is None, TRUE the manager whose
                          \* fields are tools and tool_configs
    remote_tools, \* model.py: the remote tools the orchestration holds
    agent,        \* model.py: "none" before the import, "created" once
                  \* create_context_aware_agent() has returned, "raised"
                  \* when it raised out of the module body (no module)
    all_tools     \* model.py: the remote tools among all_tools, the agent's

regVars == <<tools, tool_configs, last, prev, remote_tools_manager,
             remote_tools, all_tools, agent>>

\* start_reminder_scheduler and the end of the application
VARIABLES
    nStarts,      \* history: calls of start_reminder_scheduler
    nWorkers,     \* history: threads those calls have created
    nExited,      \* history: threads that have left the while loop
    mainFlag,     \* main.reminder_scheduler_running, the name main.py imports
    shutdown      \* the finally block of main.py has run

startVars == <<nStarts, nWorkers, nExited, mainFlag, shutdown>>

\* one ContextManager and its backing file
VARIABLES
    context_file,       \* the content of ContextManager.context_file
    max_history,        \* ContextManager.max_history
    current_session_id, \* ContextManager.current_session_id
    current_session,    \* ContextManager.current_session, a deque(maxlen=5)
    history,            \* ContextManager.history
    user_profile,       \* ContextManager.user_profile
    nCalls,             \* history: add_conversation_turn calls on this object
    turnsLeft,          \* add_conversation_turn calls the behaviour may make
    op,                 \* history: the last operation and what it did
    sessionLog,         \* history: the turns put into current_session since
                        \* it was last emptied
    lastUse,            \* history: per keyword, the call that last used it
                        \* since the profile was loaded or reset
    lifetime,           \* history: session lifetimes begun on this file
    recorded,           \* history: <<session_id, lifetime>> of recorded turns
    stale               \* history: how many leading entries of the history
                        \* were there before the last clean_context_file

ctxVars == <<context_file, max_history, current_session_id, current_session,
             history, user_profile, nCalls, turnsLeft, op, sessionLog, lastUse,
             lifetime, recorded, stale>>

vars == <<schedVars, regVars, startVars, ctxVars>>

----------------------------------------------------------------------------
(* Characters and strings *)

\* A Python string is the sequence of its characters.  A character up to
\* U+00FF is the string of that one character; a character above U+00FF is
\* the string "U+" with its four hexadecimal digits.  The alphabet of the
\* model is printable ASCII without the grave accent, Latin-1 from U+00A0,
\* the Greek letters, the long s and the two st ligatures, and every
\* character str.split() separates at.  The tables are those of Python 3's
\* str.isspace(), str.lower() and str.upper() on this alphabet.

\* the characters str.split() separates at: those str.isspace() holds of
Whitespace ==
    { "\t", "\n", "", "\f", "\r", "", "", "", "", " ", "", " ",
      "U+1680", "U+2000", "U+2001", "U+2002", "U+2003", "U+2004", "U+2005",
      "U+2006", "U+2007", "U+2008", "U+2009", "U+200A", "U+2028", "U+2029",
      "U+202F", "U+205F", "U+3000" }

\* <<c, c.lower()>> for the characters str.lower() changes
LowerPairs ==
    { <<"A", "a">>, <<"B", "b">>, <<"C", "c">>, <<"D", "d">>, <<"E", "e">>,
      <<"F", "f">>, <<"G", "g">>, <<"H", "h">>, <<"I", "i">>, <<"J", "j">>,
      <<"K", "k">>, <<"L", "l">>, <<"M", "m">>, <<"N", "n">>, <<"O", "o">>,
      <<"P", "p">>, <<"Q", "q">>, <<"R", "r">>, <<"S", "s">>, <<"T", "t">>,
      <<"U", "u">>, <<"V", "v">>, <<"W", "w">>, <<"X", "x">>, <<"Y", "y">>,
      <<"Z", "z">>, <<"À", "à">>, <<"Á", "á">>, <<"Â", "â">>, <<"Ã", "ã">>,
      <<"Ä", "ä">>, <<"Å", "å">>, <<"Æ", "æ">>, <<"Ç", "ç">>, <<"È", "è">>,
      <<"É", "é">>, <<"Ê", "ê">>, <<"Ë", "ë">>, <<"Ì", "ì">>, <<"Í", "í">>,
      <<"Î", "î">>, <<"Ï", "ï">>, <<"Ð", "ð">>, <<"Ñ", "ñ">>, <<"Ò", "ò">>,
      <<"Ó", "ó">>, <<"Ô", "ô">>, <<"Õ", "õ">>, <<"Ö", "ö">>, <<"Ø", "ø">>,
      <<"Ù", "ù">>, <<"Ú", "ú">>, <<"Û", "û">>, <<"Ü", "ü">>, <<"Ý", "ý">>,
      <<"Þ", "þ">>, <<"U+0391", "U+03B1">>, <<"U+0392", "U+03B2">>,
      <<"U+0393", "U+03B3">>, <<"U+0394", "U+03B4">>,
      <<"U+0395", "U+03B5">>, <<"U+0396", "U+03B6">>,
      <<"U+0397", "U+03B7">>, <<"U+0398", "U+03B8">>,
      <<"U+0399", "U+03B9">>, <<"U+039A", "U+03BA">>,
      <<"U+039B", "U+03BB">>, <<"U+039C", "U+03BC">>,
      <<"U+039D", "U+03BD">>, <<"U+039E", "U+03BE">>,
      <<"U+039F", "U+03BF">>, <<"U+03A0", "U+03C0">>,
      <<"U+03A1", "U+03C1">>, <<"U+03A3", "U+03C3">>,
      <<"U+03A4", "U+03C4">>, <<"U+03A5", "U+03C5">>,
      <<"U+03A6", "U+03C6">>, <<"U+03A7", "U+03C7">>,
      <<"U+03A8", "U+03C8">>, <<"U+03A9", "U+03C9">>, <<"U+0178", "ÿ">> }

\* <<c, c.upper()>> for the characters str.upper() changes; the upper case
\* of a character may be more than one character
UpperPairs ==
    { <<"a", <<"A">>>>, <<"b", <<"B">>>>, <<"c", <<"C">>>>,
      <<"d", <<"D">>>>, <<"e", <<"E">>>>, <<"f", <<"F">>>>,
      <<"g", <<"G">>>>, <<"h", <<"H">>>>, <<"i", <<"I">>>>,
      <<"j", <<"J">>>>, <<"k", <<"K">>>>, <<"l", <<"L">>>>,
      <<"m", <<"M">>>>, <<"n", <<"N">>>>, <<"o", <<"O">>>>,
      <<"p", <<"P">>>>, <<"q", <<"Q">>>>, <<"r", <<"R">>>>,
      <<"s", <<"S">>>>, <<"t", <<"T">>>>, <<"u", <<"U">>>>,
      <<"v", <<"V">>>>, <<"w", <<"W">>>>, <<"x", <<"X">>>>,
      <<"y", <<"Y">>>>, <<"z", <<"Z">>>>, <<"µ", <<"U+039C">>>>,
      <<"ß", <<"S", "S">>>>, <<"à", <<"À">>>>, <<"á", <<"Á">>>>,
      <<"â", <<"Â">>>>, <<"ã", <<"Ã">>>>, <<"ä", <<"Ä">>>>,
      <<"å", <<"Å">>>>, <<"æ", <<"Æ">>>>, <<"ç", <<"Ç">>>>,
      <<"è", <<"È">>>>, <<"é", <<"É">>>>, <<"ê", <<"Ê">>>>,
      <<"ë", <<"Ë">>>>, <<"ì", <<"Ì">>>>, <<"í", <<"Í">>>>,
      <<"î", <<"Î">>>>, <<"ï", <<"Ï">>>>, <<"ð", <<"Ð">>>>,
      <<"ñ", <<"Ñ">>>>, <<"ò", <<"Ò">>>>, <<"ó", <<"Ó">>>>,
      <<"ô", <<"Ô">>>>, <<"õ", <<"Õ">>>>, <<"ö", <<"Ö">>>>,
      <<"ø", <<"Ø">>>>, <<"ù", <<"Ù">>>>, <<"ú", <<"Ú">>>>,
      <<"û", <<"Û">>>>, <<"ü", <<"Ü">>>>, <<"ý", <<"Ý">>>>,
      <<"þ", <<"Þ">>>>, <<"ÿ", <<"U+0178">>>>, <<"U+03B1", <<"U+0391">>>>,
      <<"U+03B2", <<"U+0392">>>>, <<"U+03B3", <<"U+0393">>>>,
      <<"U+03B4", <<"U+0394">>>>, <<"U+03B5", <<"U+0395">>>>,
      <<"U+03B6", <<"U+0396">>>>, <<"U+03B7", <<"U+0397">>>>,
      <<"U+03B8", <<"U+0398">>>>, <<"U+03B9", <<"U+0399">>>>,
      <<"U+03BA", <<"U+039A">>>>, <<"U+03BB", <<"U+039B">>>>,
      <<"U+03BC", <<"U+039C">>>>, <<"U+03BD", <<"U+039D">>>>,
      <<"U+03BE", <<"U+039E">>>>, <<"U+03BF", <<"U+039F">>>>,
      <<"U+03C0", <<"U+03A0">>>>, <<"U+03C1", <<"U+03A1">>>>,
      <<"U+03C2", <<"U+03A3">>>>, <<"U+03C3", <<"U+03A3">>>>,
      <<"U+03C4", <<"U+03A4">>>>, <<"U+03C5", <<"U+03A5">>>>,
      <<"U+03C6", <<"U+03A6">>>>, <<"U+03C7", <<"U+03A7">>>>,
      <<"U+03C8", <<"U+03A8">>>>, <<"U+03C9", <<"U+03A9">>>>,
      <<"U+017F", <<"S">>>>, <<"U+FB05", <<"S", "T">>>>,
      <<"U+FB06", <<"S", "T">>>> }

\* the characters the final sigma rule of str.lower() skips
CaseIgnorable ==
    { "'", ".", ":", "^", "¨", "­", "¯", "´", "·", "¸" }

\* the cased letters among the others
Cased ==
    { "A", "B", "C", "D", "E", "F", "G", "H", "I", "J", "K", "L", "M", "N",
      "O", "P", "Q", "R", "S", "T", "U", "V", "W", "X", "Y", "Z", "a", "b",
      "c", "d", "e", "f", "g", "h", "i", "j", "k", "l", "m", "n", "o", "p",
      "q", "r", "s", "t", "u", "v", "w", "x", "y", "z", "ª", "µ", "º", "À",
      "Á", "Â", "Ã", "Ä", "Å", "Æ", "Ç", "È", "É", "Ê", "Ë", "Ì", "Í", "Î",
      "Ï", "Ð", "Ñ", "Ò", "Ó", "Ô", "Õ", "Ö", "Ø", "Ù", "Ú", "Û", "Ü", "Ý",
      "Þ", "ß", "à", "á", "â", "ã", "ä", "å", "æ", "ç", "è", "é", "ê", "ë",
      "ì", "í", "î", "ï", "ð", "ñ", "ò", "ó", "ô", "õ", "ö", "ø", "ù", "ú",
      "û", "ü", "ý", "þ", "ÿ", "U+0391", "U+0392", "U+0393", "U+0394",
      "U+0395", "U+0396", "U+0397", "U+0398", "U+0399", "U+039A", "U+039B",
      "U+039C", "U+039D", "U+039E", "U+039F", "U+03A0", "U+03A1", "U+03A3",
      "U+03A4", "U+03A5", "U+03A6", "U+03A7", "U+03A8", "U+03A9", "U+03B1",
      "U+03B2", "U+03B3", "U+03B4", "U+03B5", "U+03B6", "U+03B7", "U+03B8",
      "U+03B9", "U+03BA", "U+03BB", "U+03BC", "U+03BD", "U+03BE", "U+03BF",
      "U+03C0", "U+03C1", "U+03C2", "U+03C3", "U+03C4", "U+03C5", "U+03C6",
      "U+03C7", "U+03C8", "U+03C9", "U+0178", "U+017F", "U+FB05", "U+FB06" }

\* the alphabet
Alphabet ==
    { " ", "!", "\"", "#", "$", "%", "&", "'", "(", ")", "*", "+", ",",
      "-", ".", "/", "0", "1", "2", "3", "4", "5", "6", "7", "8", "9", ":",
      ";", "<", "=", ">", "?", "@", "A", "B", "C", "D", "E", "F", "G", "H",
      "I", "J", "K", "L", "M", "N", "O", "P", "Q", "R", "S", "T", "U", "V",
      "W", "X", "Y", "Z", "[", "\\", "]", "^", "_", "a", "b", "c", "d",
      "e", "f", "g", "h", "i", "j", "k", "l", "m", "n", "o", "p", "q", "r",
      "s", "t", "u", "v", "w", "x", "y", "z", "{", "|", "}", "~", " ", "¡",
      "¢", "£", "¤", "¥", "¦", "§", "¨", "©", "ª", "«", "¬", "­", "®", "¯",
      "°", "±", "²", "³", "´", "µ", "¶", "·", "¸", "¹", "º", "»", "¼", "½",
      "¾", "¿", "À", "Á", "Â", "Ã", "Ä", "Å", "Æ", "Ç", "È", "É", "Ê", "Ë",
      "Ì", "Í", "Î", "Ï", "Ð", "Ñ", "Ò", "Ó", "Ô", "Õ", "Ö", "×", "Ø", "Ù",
      "Ú", "Û", "Ü", "Ý", "Þ", "ß", "à", "á", "â", "ã", "ä", "å", "æ", "ç",
      "è", "é", "ê", "ë", "ì", "í", "î", "ï", "ð", "ñ", "ò", "ó", "ô", "õ",
      "ö", "÷", "ø", "ù", "ú", "û", "ü", "ý", "þ", "ÿ", "U+0391", "U+0392",
      "U+0393", "U+0394", "U+0395", "U+0396", "U+0397", "U+0398", "U+0399",
      "U+039A", "U+039B", "U+039C", "U+039D", "U+039E", "U+039F", "U+03A0",
      "U+03A1", "U+03A3", "U+03A4", "U+03A5", "U+03A6", "U+03A7", "U+03A8",
      "U+03A9", "U+03B1", "U+03B2", "U+03B3", "U+03B4", "U+03B5", "U+03B6",
      "U+03B7", "U+03B8", "U+03B9", "U+03BA", "U+03BB", "U+03BC", "U+03BD",
      "U+03BE", "U+03BF", "U+03C0", "U+03C1", "U+03C2", "U+03C3", "U+03C4",
      "U+03C5", "U+03C6", "U+03C7", "U+03C8", "U+03C9", "U+0178", "U+017F",
      "U+FB05", "U+FB06", "\t", "\n", "", "\f", "\r", "", "", "", "",
      "", "U+1680", "U+2000", "U+2001", "U+2002", "U+2003", "U+2004",
      "U+2005", "U+2006", "U+2007", "U+2008", "U+2009", "U+200A", "U+2028",
      "U+2029", "U+202F", "U+205F", "U+3000" }

\* str.lower() of one character, as a function on the characters it changes
ToLower == [c \in { p[1] : p \in LowerPairs } |-> (CHOOSE p \in LowerPairs : p[1] = c)[2]]

\* str.upper() of one character, as a function on the characters it changes
ToUpper == [c \in { p[1] : p \in UpperPairs } |-> (CHOOSE p \in UpperPairs : p[1] = c)[2]]

\* str.lower() on a character that is not a capital sigma
LowerChar(c) ==
    CASE c \in DOMAIN ToLower -> ToLower[c]
      [] c \in Alphabet -> c

\* the capital sigma at position i of s is preceded by a cased letter and not
\* followed by one, case-ignorable characters skipped
FinalSigma(s, i) ==
    /\ \E j \in 1..(i - 1) :
           /\ s[j] \in Cased
           /\ \A k \in (j + 1)..(i - 1) : s[k] \in CaseIgnorable
    /\ ~\E j \in (i + 1)..Len(s) :
           /\ s[j] \in Cased
           /\ \A k \in (i + 1)..(j - 1) : s[k] \in CaseIgnorable

\* str.lower(): character by character, but a capital sigma at the end of a
\* word becomes the final sigma
Lower(s) ==
    [i \in 1..Len(s) |->
        IF s[i] = "U+03A3" /\ FinalSigma(s, i)
        THEN "U+03C2"
        ELSE LowerChar(s[i])]

\* str.upper() on one character: one character or more
UpperChar(c) ==
    CASE c \in DOMAIN ToUpper -> ToUpper[c]
      [] c \in Alphabet -> <<c>>

RECURSIVE Upper(_)
\* str.upper()
Upper(s) == IF s = <<>> THEN <<>> ELSE UpperChar(Head(s)) \o Upper(Tail(s))

----------------------------------------------------------------------------
(* The capability registry: RemoteToolsManager *)

\* entries of one discovery response
MaxEntries == 2
\* length the tools list may grow to (discover_tools only ever appends)
MaxTools == 3

\* a key the server's JSON object does not have
Missing == "<missing>"

\* the leading marks of the returned strings
Cross == "<cross mark>"
Check == "<check mark>"

\* an entry of the "tools" list of a discovery response, as received
Entry(name, description, endpoint, method) ==
    [isDict |-> TRUE, name |-> name, description |-> description,
     endpoint |-> endpoint, method |-> method]

\* the method names _execute_remote_tool compares with; a method is the
\* sequence of its characters
POST == <<"P", "O", "S", "T">>
GET == <<"G", "E", "T">>
\* an entry without the key "method"
NoMethod == <<Missing>>

\* an entry that is not a JSON object (a string, a number, null)
NotADict ==
    [isDict |-> FALSE, name |-> Missing, description |-> Missing,
     endpoint |-> Missing, method |-> NoMethod]

Entries ==
    { Entry("send_email", "v1", "/send", POST),
      Entry("send_email", "v2", "/send", <<"G", "e", "t">>),
      Entry("read_inbox", "v1", "/inbox", GET),
      Entry("read_inbox", "v1", "/inbox", <<"P", "U", "T">>),
      Entry("read_inbox", Missing, "/inbox", GET),
      Entry("send_email", "v1", Missing, POST),
      Entry(Missing, "v1", "/send", POST),
      NotADict }

\* names invoke is called with: the names the server declares and one more
ToolNames == {"send_email", "read_inbox", "delete_all"}

\* sequences over S of length at most n
RECURSIVE SeqsUpTo(_, _)
SeqsUpTo(S, n) ==
    IF n = 0
    THEN { <<>> }
    ELSE LET shorter == SeqsUpTo(S, n - 1)
         IN  shorter \cup { Append(q, x) : q \in shorter, x \in S }

\* what GET {base_url}/gmail/tools/list may do
Response(kind, entries) == [kind |-> kind, entries |-> entries]
DiscoveryResponses ==
    { Response(k, <<>>) :
          k \in {"connection_error", "timeout", "http_500", "not_json",
                 "json_not_object", "no_tools_key", "tools_not_iterable"} }
    \cup { Response("tools", es) : es \in SeqsUpTo(Entries, MaxEntries) }

\* the LangChain tool _create_langchain_tool builds
LangchainTool(tool_config) ==
    [name |-> tool_config.name, description |-> tool_config.description]

\* self.tool_configs[tool_config['name']] = tool_config
StoreConfig(configs, tool_config) ==
    [n \in DOMAIN configs \cup {tool_config.name} |->
        IF n = tool_config.name THEN tool_config ELSE configs[n]]

Registry(configs, tls, raised) ==
    [configs |-> configs, tools |-> tls, raised |-> raised]

\* one iteration of the loop of _register_tools on registry state st
RegisterOne(st, tool_config) ==
    IF ~tool_config.isDict
    THEN \* tool_config['name'] raises TypeError; the handler's
         \* tool_config.get raises AttributeError, which leaves the loop
         Registry(st.configs, st.tools, TRUE)
    ELSE IF tool_config.name = Missing
    THEN \* KeyError, caught and reported
         st
    ELSE IF tool_config.description = Missing
    THEN \* the config is stored, then _create_langchain_tool raises KeyError
         Registry(StoreConfig(st.configs, tool_config), st.tools, FALSE)
    ELSE Registry(StoreConfig(st.configs, tool_config),
                  Append(st.tools, LangchainTool(tool_config)), FALSE)

\* _register_tools: the loop, ended early by an exception that escapes it
RECURSIVE RegisterTools(_, _)
RegisterTools(st, tools_list) ==
    IF tools_list = <<>> \/ st.raised
    THEN st
    ELSE RegisterTools(RegisterOne(st, Head(tools_list)), Tail(tools_list))

\* discover_tools: the registry afterwards and the value returned
DiscoverTools(configs, tls, response) ==
    CASE response.kind = "tools" ->
           LET st == RegisterTools(Registry(configs, tls, FALSE),
                                   response.entries)
           IN  [configs |-> st.configs, tools |-> st.tools,
                ok |-> ~st.raised]
      [] response.kind = "no_tools_key" ->
           \* tools_data.get('tools', []) is the empty list
           [configs |-> configs, tools |-> tls, ok |-> TRUE]
      [] OTHER ->
           \* not 200, ConnectionError, Timeout, or an exception of
           \* response.json(), tools_data.get or the for statement
           [configs |-> configs, tools |-> tls, ok |-> FALSE]

\* list_available_tools: raises KeyError on a config without description
ListAvailableTools(configs) ==
    IF \E n \in DOMAIN configs : configs[n].description = Missing
    THEN [raised |-> TRUE, value |-> <<>>]
    ELSE [raised |-> FALSE,
          value |-> [n \in DOMAIN configs |-> configs[n].description]]

\* get_tools
GetTools(tls) == tls

\* what the remote service may do with an invocation request
Outcome(kind, status, body) == [kind |-> kind, status |-> status, body |-> body]
Body(shape, hasSuccess, success, error, message, data) ==
    [shape |-> shape, hasSuccess |-> hasSuccess, success |-> success,
     error |-> error, message |-> message, data |-> data]

\* the "data" of a body: whether it is a list or dict, whether it is true
\* in an if, and its content
Data(structured, truthy, content) ==
    [structured |-> structured, truthy |-> truthy, content |-> content]
\* no key "data": result.get("data", "") is the empty string
NoData == Data(FALSE, FALSE, "")

NoBody == Body("text", FALSE, FALSE, Missing, "", NoData)
Bodies ==
    { Body("dict", TRUE, TRUE, Missing, "sent", NoData),
      Body("dict", TRUE, TRUE, Missing, "sent", Data(TRUE, TRUE, "id: 7")),
      Body("dict", TRUE, TRUE, Missing, "", Data(FALSE, TRUE, "abc")),
      Body("dict", TRUE, TRUE, Missing, "", Data(TRUE, FALSE, "")),
      Body("dict", TRUE, FALSE, "quota exceeded", "", NoData),
      Body("dict", TRUE, FALSE, Missing, "", NoData),
      Body("dict", FALSE, FALSE, "quota exceeded", "", NoData),
      Body("dict", FALSE, FALSE, Missing, "", NoData),
      Body("scalar", FALSE, FALSE, Missing, "", NoData),
      Body("text", FALSE, FALSE, Missing, "", NoData) }
Outcomes ==
    { Outcome("timeout", "", NoBody), Outcome("connection_error", "", NoBody),
      Outcome("response", "500", NoBody) }
    \cup { Outcome("response", "200", b) : b \in Bodies }

\* _format_tool_response on the parsed JSON body
FormatToolResponse(tool_name, result) ==
    IF result.shape = "dict"
    THEN IF result.hasSuccess
         THEN IF result.success
              THEN <<Check, tool_name, "completed successfully">>
                   \o (IF result.message # ""
                       THEN <<"\n", "<speech balloon>", result.message>>
                       ELSE <<>>)
                   \o (IF result.data.truthy
                       THEN <<"\n", "<bar chart>", "Data:">>
                            \o (IF result.data.structured
                                THEN <<"json.dumps", result.data.content>>
                                ELSE <<result.data.content>>)
                       ELSE <<>>)
              ELSE <<Cross, tool_name, "failed:",
                     IF result.error = Missing
                     THEN "Unknown error" ELSE result.error>>
         ELSE IF result.error # Missing
              THEN <<Cross, tool_name, "error:", result.error>>
              ELSE <<Check, tool_name, "response:", "\n", "items">>
    ELSE <<Check, tool_name, "result:", "value">>

Returned(text, sent) == [exc |-> "none", text |-> text, sent |-> sent]
Raised(exc, key, sent) == [exc |-> exc, text |-> <<key>>, sent |-> sent]

\* self.tool_configs[tool_name]
LookupConfig_Default(configs, tool_name) ==
    IF tool_name \in DOMAIN configs
    THEN [found |-> TRUE, config |-> configs[tool_name]]
    ELSE [found |-> TRUE,
          config |-> Entry(tool_name, "", "/" \o tool_name, POST)]
LookupConfig(configs, tool_name) ==
    IF tool_name \in DOMAIN configs
    THEN [found |-> TRUE, config |-> configs[tool_name]]
    ELSE [found |-> FALSE, config |-> NotADict]

\* the try block of _execute_remote_tool: what it returns or raises, and
\* whether a request went out
ExecuteBody(configs, tool_name, outcome) ==
    LET lookup == LookupConfig(configs, tool_name)
        tool_config == lookup.config
    IN  IF ~lookup.found
        THEN Raised("KeyError", tool_name, FALSE)
        ELSE IF tool_config.endpoint = Missing
        THEN Raised("KeyError", "endpoint", FALSE)
        ELSE IF tool_config.method = NoMethod
        THEN Raised("KeyError", "method", FALSE)
        ELSE IF Upper(tool_config.method) \notin {POST, GET}
        THEN Returned(<<Cross, "Unsupported HTTP method:",
                        tool_config.method>>, FALSE)
        ELSE IF outcome.kind = "timeout"
        THEN Raised("Timeout", "", TRUE)
        ELSE IF outcome.kind = "connection_error"
        THEN Raised("ConnectionError", "", TRUE)
        ELSE IF outcome.status # "200"
        THEN Returned(<<Cross, tool_name, "failed with HTTP",
                        outcome.status, ":", "text">>, TRUE)
        ELSE IF outcome.body.shape = "text"
        THEN \* response.json() raises json.JSONDecodeError
             Returned(<<Check, tool_name, "completed successfully:",
                        "\n", "text">>, TRUE)
        ELSE Returned(FormatToolResponse(tool_name, outcome.body), TRUE)

Result(text, sent, raised) == [text |-> text, sent |-> sent, raised |-> raised]

\* the except clauses of _execute_remote_tool
HandleExceptions_TimeoutAsConnection(tool_name, b) ==
    CASE b.exc = "none" -> Result(b.text, b.sent, FALSE)
      [] b.exc \in {"Timeout", "ConnectionError"} ->
           Result(<<Cross, "Could not connect to remote service for",
                    tool_name>>, b.sent, FALSE)
      [] OTHER ->
           Result(<<Cross, "Error executing", tool_name, ":">> \o b.text,
                  b.sent, FALSE)
HandleExceptions(tool_name, b) ==
    CASE b.exc = "none" -> Result(b.text, b.sent, FALSE)
      [] b.exc = "Timeout" ->
           Result(<<Cross, tool_name, "timed out after 30 seconds">>,
                  b.sent, FALSE)
      [] b.exc = "ConnectionError" ->
           Result(<<Cross, "Could not connect to remote service for",
                    tool_name>>, b.sent, FALSE)
      [] OTHER ->
           Result(<<Cross, "Error executing", tool_name, ":">> \o b.text,
                  b.sent, FALSE)

\* _execute_remote_tool
ExecuteRemoteTool(configs, tool_name, outcome) ==
    HandleExceptions(tool_name, ExecuteBody(configs, tool_name, outcome))

NoCall == [op |-> "none"]

\* RemoteToolsManager.__init__, and model.py before initialize_remote_tools
RegInit ==
    /\ tools = <<>>
    /\ tool_configs = <<>>
    /\ last = NoCall
    /\ prev = NoCall
    /\ remote_tools_manager = FALSE
    /\ remote_tools = <<>>
    /\ all_tools = <<>>
    /\ agent = "none"

\* discover_tools, with the response the server gives
Discover(response) ==
    /\ Len(tools) + Len(response.entries) <= MaxTools
    /\ LET d == DiscoverTools(tool_configs, tools, response)
       IN  /\ tool_configs' = d.configs
           /\ tools' = d.tools
           /\ last' = [op |-> "discover", response |-> response, ok |-> d.ok]
    /\ prev' = NoCall
    /\ UNCHANGED <<remote_tools_manager, remote_tools, all_tools, agent>>
    /\ UNCHANGED <<schedVars, startVars, ctxVars>>

\* a call of a registered LangChain tool, or of _execute_remote_tool with any
\* name, with what the remote service does if it is asked
Invoke(tool_name, outcome) ==
    /\ LET r == ExecuteRemoteTool(tool_configs, tool_name, outcome)
       IN  last' = [op |-> "invoke", name |-> tool_name,
                    registered |-> tool_name \in DOMAIN tool_configs,
                    outcome |-> IF r.sent THEN outcome
                                ELSE Outcome("not_asked", "", NoBody),
                    text |-> r.text, sent |-> r.sent, raised |-> r.raised]
    /\ prev' = IF last.op = "invoke" THEN last ELSE NoCall
    /\ UNCHANGED <<tools, tool_configs, remote_tools_manager, remote_tools,
                   all_tools, agent>>
    /\ UNCHANGED <<schedVars, startVars, ctxVars>>

----------------------------------------------------------------------------
(* The orchestration layer's remote tools: model.py *)

\* what GET {base_url}/health may do: status 200, or anything else
HealthChecks == BOOLEAN

\* remote_tools_manager.health_check()
HealthCheck(health) == health

Initialized(configs, tls, remote, ok) ==
    [configs |-> configs, tools |-> tls, remote_tools |-> remote, ok |-> ok]

\* initialize_remote_tools: a new RemoteToolsManager takes the place of the
\* old one before the server is asked anything; remote is remote_tools as
\* the call finds it.  The fields of the new manager, remote_tools
\* afterwards, and the value returned.
InitializeRemoteTools(remote, health, response) ==
    LET d == DiscoverTools(<<>>, <<>>, response)
    IN  IF ~HealthCheck(health)
        THEN Initialized(<<>>, <<>>, remote, FALSE)
        ELSE IF ~d.ok
        THEN Initialized(d.configs, d.tools, remote, FALSE)
        ELSE \* remote_tools is assigned; list_available_tools() follows,
             \* and its KeyError is caught by the except clause
             Initialized(d.configs, d.tools, GetTools(d.tools),
                         ~ListAvailableTools(d.configs).raised)

\* the names of a list of LangChain tools
ToolNamesOf(tls) == { tls[i].name : i \in DOMAIN tls }

\* what the orchestration shows of its remote tools (list_available_tools,
\* create_context_aware_agent, process_voice_command): the names in
\* remote_tools, and under `if remote_tools_manager and remote_tools:` what
\* list_available_tools() of the current manager returns; nothing is asked
\* of the manager, and no remote tool is shown, when the test fails
RemoteView(manager, remote, configs) ==
    [remote_tools |-> ToolNamesOf(remote),
     available |-> IF manager /\ remote # <<>>
                   THEN ListAvailableTools(configs)
                   ELSE [raised |-> FALSE, value |-> <<>>]]

\* create_context_aware_agent(): list_available_tools() is called when
\* there is a manager and remote_tools is not empty, outside any try block;
\* "raised" when its KeyError leaves the function, "created" otherwise
CreateContextAwareAgent(manager, remote, configs) ==
    IF manager /\ remote # <<>> /\ ListAvailableTools(configs).raised
    THEN "raised"
    ELSE "created"

\* the import of model.py: initialize_remote_tools(), then
\* all_tools = local_tools + remote_tools, then
\* agent = create_context_aware_agent().  An exception of that call leaves
\* the module body: the import fails, main.py ends, and the variables keep
\* what they held when it was raised.
ImportModel(health, response) ==
    /\ ~remote_tools_manager
    /\ agent = "none"
    /\ LET r == InitializeRemoteTools(remote_tools, health, response)
       IN  /\ remote_tools_manager' = TRUE
           /\ tool_configs' = r.configs
           /\ tools' = r.tools
           /\ remote_tools' = r.remote_tools
           /\ all_tools' = r.remote_tools
           /\ agent' = CreateContextAwareAgent(TRUE, r.remote_tools,
                                               r.configs)
           /\ last' = [op |-> "initialize", ok |-> r.ok,
                       before |-> RemoteView(remote_tools_manager,
                                             remote_tools, tool_configs)]
    /\ prev' = NoCall
    /\ UNCHANGED <<schedVars, startVars, ctxVars>>

\* refresh_remote_tools(), which needs the module: the import has not
\* raised.  After a successful initialize_remote_tools() the agent is
\* created again.
RefreshRemoteTools(health, response) ==
    /\ remote_tools_manager
    /\ agent = "created"
    /\ LET r == InitializeRemoteTools(remote_tools, health, response)
       IN  /\ remote_tools_manager' = TRUE
           /\ tool_configs' = r.configs
           /\ tools' = r.tools
           /\ remote_tools' = r.remote_tools
           /\ all_tools' = IF r.ok THEN r.remote_tools ELSE all_tools
           /\ agent' = IF r.ok
                       THEN CreateContextAwareAgent(TRUE, r.remote_tools,
                                                    r.configs)
                       ELSE agent
           /\ last' = [op |-> "refresh", ok |-> r.ok,
                       before |-> RemoteView(remote_tools_manager,
                                             remote_tools, tool_configs)]
    /\ prev' = NoCall
    /\ UNCHANGED <<schedVars, startVars, ctxVars>>

----------------------------------------------------------------------------
(* The context store: ContextManager (src/backend/context_manager.py)      *)
(*                                                                         *)
(* A Python str is a sequence of one-character strings, so that lower(),   *)
(* split() and the substring test `in` are computed and not assumed.       *)

\* add_conversation_turn calls in a behaviour of turns and nothing else
MaxTurns == 6
\* add_conversation_turn calls in a behaviour that also saves, reloads and
\* resets
MaxTurnsStored == 3
\* the largest max_history a ContextManager is constructed with
MaxCap == 2
\* session lifetimes begun on one backing file
MaxLifetimes == 2
\* the clock of the context store stops advancing here
MaxContextTime == 30

\* deque(maxlen=5)
SessionCapacity == 5
\* __init__(self, context_file="context_memory.json", max_history=100)
DefaultMaxHistory == 100
\* len(self.current_session) % 5 == 0
AutosaveEvery == 5
\* len(...frequently_used_commands) > 10 and [-10:]
CommandsCap == 10
\* len(relevant_turns) >= 3
RelevantLimit == 3

LowerLetters == <<"a", "b", "c", "d", "e", "f", "g", "h", "i", "j", "k", "l",
                  "m", "n", "o", "p", "q", "r", "s", "t", "u", "v", "w", "x",
                  "y", "z">>

\* the end of the word that starts at the head of s
WordEnd(s) ==
    CHOOSE k \in 1..Len(s) :
        /\ \A j \in 1..k : s[j] \notin Whitespace
        /\ k = Len(s) \/ s[k + 1] \in Whitespace

\* str.split(): the maximal runs of non-whitespace characters, in order
RECURSIVE Split(_)
Split(s) ==
    IF s = <<>> THEN <<>>
    ELSE IF Head(s) \in Whitespace THEN Split(Tail(s))
    ELSE <<SubSeq(s, 1, WordEnd(s))>>
             \o Split(SubSeq(s, WordEnd(s) + 1, Len(s)))

\* `needle in hay` on Python strings: needle occurs as a substring
Contains(hay, needle) ==
    \E i \in 1..(Len(hay) - Len(needle) + 1) :
        SubSeq(hay, i, i + Len(needle) - 1) = needle

Range(s) == { s[i] : i \in DOMAIN s }

\* s[-n:] on a Python list; s[-0:] is the whole list
LastN(s, n) ==
    IF n = 0 \/ n >= Len(s) THEN s
    ELSE SubSeq(s, Len(s) - n + 1, Len(s))

\* append on a deque without maxlen
DequeAppend_Unbounded(d, x) == Append(d, x)

\* deque(maxlen=5).append
DequeAppend(d, x) ==
    IF Len(d) = SessionCapacity THEN Append(Tail(d), x) ELSE Append(d, x)

\* deque(maxlen=5).extend
RECURSIVE DequeExtend(_, _)
DequeExtend(d, xs) ==
    IF xs = <<>> THEN d
    ELSE DequeExtend(DequeAppend(d, Head(xs)), Tail(xs))

\* datetime.now().strftime("%Y%m%d_%H%M%S"): the day and the second of it
StrfSecond(t) == <<t \div SecondsPerDay, t % SecondsPerDay>>

\* datetime.now().isoformat(); the clock has no finer unit than the second
IsoFormat(t) == <<t \div SecondsPerDay, "T", t % SecondsPerDay>>

\* None
None == <<>>

\* ConversationTurn(...)
ConversationTurn(timestamp, user_input, assistant_response, session_id, context_type) ==
    [timestamp |-> timestamp, user_input |-> user_input,
     assistant_response |-> assistant_response, session_id |-> session_id,
     context_type |-> context_type]

\* UserProfile(...) after __post_init__
UserProfile(name, preferences, frequently_used_commands, last_interaction) ==
    [name |-> name, preferences |-> preferences,
     frequently_used_commands |-> frequently_used_commands,
     last_interaction |-> last_interaction]

\* UserProfile()
DefaultProfile == UserProfile("Sir", {}, <<>>, None)

\* command_keywords of _update_user_preferences
command_keywords ==
    << <<"c", "r", "e", "a", "t", "e">>,
       <<"w", "r", "i", "t", "e">>,
       <<"r", "e", "a", "d">>,
       <<"e", "x", "e", "c", "u", "t", "e">>,
       <<"r", "e", "m", "i", "n", "d">>,
       <<"l", "i", "s", "t">> >>

\* the backing file: absent, not JSON, or a JSON object with an optional
\* "user_profile" and an optional "conversations" list; ~readable when
\* open(self.context_file, 'r') raises on it, ~writable when
\* open(self.context_file, 'w') raises on it
ContextFile(kind, has_profile, profile_data, has_conversations, conversations) ==
    [kind |-> kind, has_profile |-> has_profile,
     profile_data |-> profile_data,
     has_conversations |-> has_conversations,
     conversations |-> conversations,
     readable |-> TRUE, writable |-> TRUE]

\* the same content where open(self.context_file, 'w') raises: a read-only
\* or immutable file, or no file in a directory that takes none
ReadOnly(f) == [f EXCEPT !.writable = FALSE]

\* the same content where open(self.context_file, 'r') raises: the file
\* exists and its mode or its owner keeps this process from reading it
WriteOnly(f) == [f EXCEPT !.readable = FALSE]

MissingFile == ContextFile("missing", FALSE, <<>>, FALSE, <<>>)
UnparseableFile == ContextFile("unparseable", FALSE, <<>>, FALSE, <<>>)
\* json.dump({}, f)
EmptyObjectFile == ContextFile("object", FALSE, <<>>, FALSE, <<>>)

\* asdict(self.user_profile); `unexpected` marks a stored object that has a
\* key UserProfile does not accept
ProfileAsDict(p) ==
    [unexpected |-> FALSE, name |-> p.name, preferences |-> p.preferences,
     frequently_used_commands |-> p.frequently_used_commands,
     last_interaction |-> p.last_interaction]

\* asdict(turn); ~wellformed marks a stored entry that ConversationTurn(**turn)
\* rejects
TurnAsDict(turn) ==
    [wellformed |-> TRUE, timestamp |-> turn.timestamp,
     user_input |-> turn.user_input,
     assistant_response |-> turn.assistant_response,
     session_id |-> turn.session_id, context_type |-> turn.context_type]

\* ConversationTurn(**turn) of a well-formed entry
TurnFromDict(d) ==
    ConversationTurn(d.timestamp, d.user_input, d.assistant_response,
                     d.session_id, d.context_type)

\* UserProfile(**profile_data) of an accepted object
ProfileFromDict(d) ==
    UserProfile(d.name, d.preferences, d.frequently_used_commands,
                d.last_interaction)

Loaded(profile, hist, session) ==
    [user_profile |-> profile, history |-> hist, current_session |-> session]

\* __init__ followed by _load_context: the fields are set in the order of the
\* code and an exception ends the load where it is raised
LoadContext(f) ==
    LET fresh == Loaded(DefaultProfile, <<>>, <<>>)
        profile ==
            IF f.has_profile THEN ProfileFromDict(f.profile_data)
            ELSE DefaultProfile
        turns == [i \in 1..Len(f.conversations) |->
                      TurnFromDict(f.conversations[i])]
    IN  IF f.kind # "object" THEN fresh
        ELSE IF ~f.readable THEN fresh
        ELSE IF f.has_profile /\ f.profile_data.unexpected THEN fresh
        ELSE IF ~f.has_conversations THEN Loaded(profile, <<>>, <<>>)
        ELSE IF \E i \in DOMAIN f.conversations :
                    ~f.conversations[i].wellformed
             THEN Loaded(profile, <<>>, <<>>)
        ELSE Loaded(profile, turns,
                    DequeExtend(<<>>, LastN(turns, SessionCapacity)))

\* existing_data['conversations'][:max_history]: the oldest turns
KeepRecent_Oldest(conversations, cap) ==
    SubSeq(conversations, 1, IF cap < Len(conversations)
                             THEN cap ELSE Len(conversations))

\* existing_data['conversations'][-self.max_history:]
KeepRecent(conversations, cap) == LastN(conversations, cap)

Saved(f, wrote) == [file |-> f, wrote |-> wrote]

\* _save_context: reading the existing file comes first, and an exception
\* there (the open for reading, json.load) or at the open for writing
\* leaves the file as it was
SaveContext(f, profile, hist, cap) ==
    IF f.kind = "unparseable" THEN Saved(f, FALSE)
    ELSE IF f.kind # "missing" /\ ~f.readable THEN Saved(f, FALSE)
    ELSE IF ~f.writable THEN Saved(f, FALSE)
    ELSE Saved(ContextFile("object", TRUE, ProfileAsDict(profile), TRUE,
                           KeepRecent([i \in 1..Len(hist) |->
                                           TurnAsDict(hist[i])], cap)),
               TRUE)

\* the body of the loop of _update_user_preferences for one keyword
UpdateForKeyword(commands, lowered, keyword) ==
    IF ~Contains(lowered, keyword) THEN commands
    ELSE IF keyword \notin Range(commands) THEN Append(commands, keyword)
    ELSE IF Len(commands) > CommandsCap THEN LastN(commands, CommandsCap)
    ELSE commands

RECURSIVE UpdateFrom(_, _, _)
UpdateFrom(commands, lowered, k) ==
    IF k > Len(command_keywords) THEN commands
    ELSE UpdateFrom(UpdateForKeyword(commands, lowered, command_keywords[k]),
                    lowered, k + 1)

\* _update_user_preferences
UpdateUserPreferences(profile, user_input) ==
    [profile EXCEPT !.frequently_used_commands =
                        UpdateFrom(@, Lower(user_input), 1)]

\* any(word in turn.user_input.lower() for word in current_lower.split())
Matches(turn, words) ==
    \E k \in DOMAIN words : Contains(Lower(turn.user_input), words[k])

\* the loop of get_relevant_context over reversed(self.history), from index i
\* down, with the turns found so far, newest first
RECURSIVE ScanHistory(_, _, _, _)
ScanHistory(hist, i, words, found) ==
    IF i = 0 THEN found
    ELSE IF Matches(hist[i], words)
         THEN IF Len(found) + 1 >= RelevantLimit
              THEN Append(found, hist[i])
              ELSE ScanHistory(hist, i - 1, words, Append(found, hist[i]))
         ELSE ScanHistory(hist, i - 1, words, found)

Reversed(s) == [i \in 1..Len(s) |-> s[Len(s) + 1 - i]]

\* get_relevant_context: the turns the returned text lists, in its order;
\* the text is "" exactly when there are none
GetRelevantContext(session, hist, current_input) ==
    IF session = <<>> THEN <<>>
    ELSE Reversed(ScanHistory(hist, Len(hist), Split(Lower(current_input)),
                              <<>>))

\* what the user says, and what is asked of get_relevant_context
ReadMail == <<"R", "e", "a", "d", " ", "m", "a", "i", "l">>
CreateFile == <<"c", "r", "e", "a", "t", "e", " ", "f", "i", "l", "e">>
AlreadyDone == <<"a", "l", "r", "e", "a", "d", "y", " ", "d", "o", "n", "e">>
UserInputs == {CreateFile, AlreadyDone}
Queries == { <<"r", "e", "a", "d">>,
             <<"M", "a", "i", "l", " ", "f", "i", "l", "e">> }

\* the assistant's reply; no operation of the store depends on it
Reply == <<"o", "k">>

\* stored commands that are not keywords
OtherCommands ==
    [i \in 1..CommandsCap |-> <<"o", "t", "h", "e", "r", LowerLetters[i]>>]

\* a session of the day before
Yesterday == 0 - SecondsPerDay
OldTurn(user_input) ==
    ConversationTurn(IsoFormat(Yesterday), user_input, Reply,
                     StrfSecond(Yesterday), "general")
StoredProfile ==
    UserProfile("Tony", {"voice"}, OtherCommands, IsoFormat(Yesterday))

\* the files a ContextManager may find: none, one that is not JSON, the one
\* clean_context_file leaves, one that an earlier run saved, one whose
\* user_profile has a key too many, one with an entry that is no turn
StoredFile ==
    ContextFile("object", TRUE, ProfileAsDict(StoredProfile), TRUE,
                <<TurnAsDict(OldTurn(AlreadyDone)),
                  TurnAsDict(OldTurn(ReadMail))>>)
UnexpectedFieldFile ==
    ContextFile("object", TRUE,
                [ProfileAsDict(StoredProfile) EXCEPT !.unexpected = TRUE],
                TRUE, <<TurnAsDict(OldTurn(ReadMail))>>)
MalformedTurnFile ==
    ContextFile("object", TRUE, ProfileAsDict(StoredProfile), TRUE,
                <<TurnAsDict(OldTurn(ReadMail)),
                  [TurnAsDict(OldTurn(ReadMail)) EXCEPT !.wellformed = FALSE]>>)
InitialFiles == {MissingFile, UnparseableFile, EmptyObjectFile, StoredFile,
                 UnexpectedFieldFile, MalformedTurnFile,
                 ReadOnly(MissingFile), ReadOnly(StoredFile),
                 WriteOnly(StoredFile), WriteOnly(UnparseableFile),
                 ReadOnly(WriteOnly(StoredFile))}

Op(name, wrote, call, query, result) ==
    [op |-> name, wrote |-> wrote, call |-> call, query |-> query,
     result |-> result]

NeverUsed == [k \in DOMAIN command_keywords |-> 0]

\* the keywords of command_keywords that user_input.lower() contains
Used(user_input) ==
    { k \in DOMAIN command_keywords :
          Contains(Lower(user_input), command_keywords[k]) }

\* ContextManager(context_file, max_history) at time t over the file f
Constructed(f, t) ==
    /\ current_session_id' = StrfSecond(t)
    /\ user_profile' = LoadContext(f).user_profile
    /\ history' = LoadContext(f).history
    /\ current_session' = LoadContext(f).current_session
    /\ sessionLog' = LastN(LoadContext(f).history, SessionCapacity)
    /\ nCalls' = 0
    /\ lastUse' = NeverUsed
    /\ recorded' = {}
    /\ stale' = 0
    /\ op' = Op("load", FALSE, 0, <<>>, <<>>)

\* a new ContextManager over the same file
Construct ==
    /\ lifetime < MaxLifetimes
    /\ lifetime' = lifetime + 1
    /\ Constructed(context_file, now)
    /\ UNCHANGED <<context_file, max_history, turnsLeft>>
    /\ UNCHANGED <<schedVars, regVars, startVars>>

\* the turn put at the head of the list
HistoryAppend_Front(h, turn) == <<turn>> \o h

\* self.history.append(turn)
HistoryAppend(h, turn) == Append(h, turn)

\* add_conversation_turn(user_input, assistant_response), the autosave
\* included
AddConversationTurn(user_input) ==
    LET turn == ConversationTurn(IsoFormat(now), user_input, Reply,
                                 current_session_id, "general")
        session1 == DequeAppend(current_session, turn)
        history1 == HistoryAppend(history, turn)
        profile1 == UpdateUserPreferences(
                        [user_profile EXCEPT !.last_interaction =
                                                 turn.timestamp],
                        user_input)
        autosave == Len(session1) % AutosaveEvery = 0
        saved == IF autosave
                 THEN SaveContext(context_file, profile1, history1,
                                  max_history)
                 ELSE Saved(context_file, FALSE)
    IN  /\ turnsLeft > 0
        /\ turnsLeft' = turnsLeft - 1
        /\ nCalls' = nCalls + 1
        /\ current_session' = session1
        /\ history' = history1
        /\ user_profile' = profile1
        /\ context_file' = saved.file
        /\ sessionLog' = Append(sessionLog, turn)
        /\ lastUse' = [k \in DOMAIN command_keywords |->
                           IF k \in Used(user_input) THEN nCalls + 1
                           ELSE lastUse[k]]
        /\ recorded' = recorded \cup {<<turn.session_id, lifetime>>}
        /\ op' = Op("add_conversation_turn", saved.wrote, nCalls + 1,
                    <<>>, <<>>)
        /\ UNCHANGED <<max_history, current_session_id, lifetime, stale>>
        /\ UNCHANGED <<schedVars, regVars, startVars>>

\* save_session()
SaveSession ==
    LET saved == SaveContext(context_file, user_profile, history,
                             max_history)
    IN  /\ context_file' = saved.file
        /\ op' = Op("save_session", saved.wrote, 0, <<>>, <<>>)
        /\ UNCHANGED <<max_history, current_session_id, current_session,
                       history, user_profile, nCalls, turnsLeft, sessionLog,
                       lastUse, lifetime, recorded, stale>>
        /\ UNCHANGED <<schedVars, regVars, startVars>>

\* get_relevant_context(current_input)
RelevantContext(current_input) ==
    /\ op' = Op("get_relevant_context", FALSE, 0, current_input,
                GetRelevantContext(current_session, history, current_input))
    /\ UNCHANGED <<context_file, max_history, current_session_id,
                   current_session, history, user_profile, nCalls, turnsLeft,
                   sessionLog, lastUse, lifetime, recorded, stale>>
    /\ UNCHANGED <<schedVars, regVars, startVars>>

\* clear_session()
ClearSession ==
    /\ lifetime < MaxLifetimes
    /\ lifetime' = lifetime + 1
    /\ current_session' = <<>>
    /\ history' = <<>>
    /\ current_session_id' = StrfSecond(now)
    /\ sessionLog' = <<>>
    /\ stale' = 0
    /\ op' = Op("clear_session", FALSE, 0, <<>>, <<>>)
    /\ UNCHANGED <<context_file, max_history, user_profile, nCalls, turnsLeft,
                   lastUse, recorded>>
    /\ UNCHANGED <<schedVars, regVars, startVars>>

\* clean_context_file(): self.history is not touched; the open for writing
\* keeps the mode of the file, so a file that could not be read still cannot;
\* when the open raises, nothing is written and nothing in memory is reset
CleanContextFile ==
    /\ lifetime < MaxLifetimes
    /\ IF context_file.writable
       THEN /\ lifetime' = lifetime + 1
            /\ context_file' = [EmptyObjectFile EXCEPT
                                    !.readable = context_file.readable]
            /\ current_session' = <<>>
            /\ user_profile' = DefaultProfile
            /\ current_session_id' = StrfSecond(now)
            /\ sessionLog' = <<>>
            /\ lastUse' = NeverUsed
            /\ stale' = Len(history)
            /\ op' = Op("clean_context_file", TRUE, 0, <<>>, <<>>)
       ELSE /\ op' = Op("clean_context_file", FALSE, 0, <<>>, <<>>)
            /\ UNCHANGED <<lifetime, context_file, current_session,
                           user_profile, current_session_id, sessionLog,
                           lastUse, stale>>
    /\ UNCHANGED <<max_history, history, nCalls, turnsLeft, recorded>>
    /\ UNCHANGED <<schedVars, regVars, startVars>>

\* no ContextManager in play
CtxIdle ==
    /\ context_file = MissingFile
    /\ max_history = MaxCap
    /\ current_session_id = StrfSecond(0)
    /\ current_session = <<>>
    /\ history = <<>>
    /\ user_profile = DefaultProfile
    /\ nCalls = 0
    /\ turnsLeft = 0
    /\ op = Op("load", FALSE, 0, <<>>, <<>>)
    /\ sessionLog = <<>>
    /\ lastUse = NeverUsed
    /\ lifetime = 1
    /\ recorded = {}
    /\ stale = 0

\* no start yet; main.py has imported the flag, which is False
StartInit ==
    /\ nStarts = 0
    /\ nWorkers = 0
    /\ nExited = 0
    /\ mainFlag = FALSE
    /\ shutdown = FALSE

----------------------------------------------------------------------------
(* The reminder store *)

\* the scheduler threads start_reminder_scheduler can create
Threads == 1..MaxStarts

\* strftime("%Y-%m-%d %H:%M"): the minute a time falls in; seconds are dropped
StrfMinute(t) == t \div SecondsPerMinute

\* strptime(s, "%Y-%m-%d %H:%M"): second 0 of the minute
StrpMinute(m) == m * SecondsPerMinute

\* json.dump(reminders, f, indent=2): the indentation of one level
Indent == 2
\* the characters of a "%Y-%m-%d %H:%M" time stamp
DateChars == 16

RECURSIVE Digits(_)
\* the characters of str(n), n >= 0
Digits(n) == IF n < 10 THEN 1 ELSE 1 + Digits(n \div 10)

\* the characters of true and of false
BoolChars(b) == IF b THEN 4 ELSE 5

\* one "key": value line of a dumped reminder, without its separator
MemberChars(key_chars, value_chars) == 2 * Indent + (key_chars + 2) + 2 + value_chars

RECURSIVE SumOf(_)
SumOf(s) == IF s = <<>> THEN 0 ELSE Head(s) + SumOf(Tail(s))

\* the lines of one dumped reminder, in the order of its keys; a task is
\* written as the numeral of its number, a description as ""
MembersOf(r) ==
    <<MemberChars(2, Digits(r.id)), MemberChars(4, Digits(r.task) + 2)>>
    \o (IF r.description = Missing THEN <<>> ELSE <<MemberChars(11, 2)>>)
    \o <<MemberChars(8, DateChars + 2), MemberChars(10, DateChars + 2),
         MemberChars(9, BoolChars(r.completed)),
         MemberChars(8, BoolChars(r.notified))>>

\* one dumped reminder: "  {\n", its lines joined by ",\n", "\n  }"
EntryChars(r) ==
    LET members == MembersOf(r)
    IN  (Indent + 2) + SumOf(members) + 2 * (Len(members) - 1) + (Indent + 2)

\* the text json.dump writes for the list: "[]", or "[\n", the reminders
\* joined by ",\n", "\n]"
TextLen(reminders) ==
    IF reminders = <<>>
    THEN 2
    ELSE 2 + SumOf([k \in 1..Len(reminders) |-> EntryChars(reminders[k])])
           + 2 * (Len(reminders) - 1) + 2

\* no file, in a directory where it can be created: load_reminders gives []
EmptyFile ==
    [valid |-> TRUE, reminders |-> <<>>, len |-> 0, readable |-> TRUE,
     writable |-> TRUE]

\* open(REMINDERS_FILE, "w") has truncated the file f; nothing is dumped
\* yet.  The open keeps the mode of the file.
TruncatedFile(f) == [f EXCEPT !.valid = FALSE, !.reminders = <<>>, !.len = 0]

\* a file that held reminders and that load_reminders cannot parse
\* (json.load raises)
DamagedFile(reminders) ==
    [valid |-> FALSE, reminders |-> reminders, len |-> TextLen(reminders),
     readable |-> TRUE, writable |-> TRUE]

\* a file that holds reminders and that load_reminders cannot open: its
\* mode or its owner keeps this process from reading it, not from writing
UnreadableFile(reminders) ==
    [valid |-> TRUE, reminders |-> reminders, len |-> TextLen(reminders),
     readable |-> FALSE, writable |-> TRUE]

\* the same content where open(REMINDERS_FILE, "w") raises: a read-only or
\* immutable file, or no file in a directory that takes none
Unwritable(f) == [f EXCEPT !.writable = FALSE]

\* the reminders of a file that load_reminders gives up on
Unread(f) == IF f.readable /\ f.valid THEN <<>> ELSE f.reminders

\* load_reminders: the parsed list, [] when the file is missing, when open
\* raises, or when json.load raises (an empty, half-written or overwritten
\* file)
LoadReminders(f) == IF f.readable /\ f.valid THEN f.reminders ELSE <<>>

\* a file of len characters that holds exactly the text of the list
FileOf(reminders, len) ==
    [valid |-> TRUE, reminders |-> reminders, len |-> len, readable |-> TRUE,
     writable |-> TRUE]

\* the file json.dump leaves when nothing else wrote to it
DumpedFile(reminders) == FileOf(reminders, TextLen(reminders))

\* save_reminders, json.dump and the close of the with block: the text goes
\* to the start of the file.  Each writer truncated the file when it opened
\* it; if another writer has put a longer text there since, the end of that
\* text stays behind this one and the file is no JSON document.  Whether
\* the file can be read is as it was before the write.
Dump(f, reminders) ==
    LET len == TextLen(reminders)
    IN  IF f.len > len
        THEN [f EXCEPT !.valid = FALSE, !.reminders = <<>>]
        ELSE [f EXCEPT !.valid = TRUE, !.reminders = reminders, !.len = len]

\* the <<id, task>> of the entries of a list that are marked notified
NotifiedIn(reminders) ==
    { <<reminders[k].id, reminders[k].task>> :
          k \in { j \in 1..Len(reminders) : reminders[j].notified } }

\* the test of reminder_scheduler on one reminder with the cycle's now
ShouldFire_NoLowerBound(r, t) ==
    /\ ~r.completed
    /\ ~r.notified
    /\ t - StrpMinute(r.datetime) <= FireWindow
ShouldFire(r, t) ==
    /\ ~r.completed
    /\ ~r.notified
    /\ 0 <= t - StrpMinute(r.datetime)
    /\ t - StrpMinute(r.datetime) <= FireWindow

\* show_reminder_notification raises KeyError at reminder['description'],
\* after the alert is printed, for an entry without that key
NotificationRaises(r) == r.description = Missing

\* reminder["notified"] = True
MarkNotified_Forgets(reminders, i) == reminders
MarkNotified(reminders, i) == [reminders EXCEPT ![i].notified = TRUE]

\* the dict create_reminder appends; input_data has no "description"
NewReminder(reminders, task, remind_time, t) ==
    [id          |-> Len(reminders) + 1,
     task        |-> task,
     description |-> "",
     datetime    |-> StrfMinute(remind_time),
     created_at  |-> StrfMinute(t),
     completed   |-> FALSE,
     notified    |-> FALSE]

\* midnight of the day t falls in
DayStart(t) == (t \div SecondsPerDay) * SecondsPerDay

Failed == [ok |-> FALSE, t |-> 0]
Parsed(t) == [ok |-> TRUE, t |-> t]

\* the time parsing of create_reminder with a clock that wraps instead of
\* raising: hour 24 is hour 0 of the next day
ParseReminderTime_Wraps(input, t) ==
    CASE input.kind = "in" ->
           Parsed(t + input.value *
                    (CASE input.unit = "seconds" -> 1
                       [] input.unit = "minutes" -> SecondsPerMinute
                       [] OTHER -> SecondsPerHour))
      [] input.kind \in {"today", "tomorrow"} ->
           Parsed(DayStart(t) + input.hour * SecondsPerHour
                              + input.minute * SecondsPerMinute)
      [] input.kind = "absolute" -> Parsed(StrpMinute(input.minute))
      [] OTHER -> Failed

\* the time parsing of create_reminder; ~ok when an exception is raised.
\* int() takes a sign, and datetime.replace raises ValueError for an hour
\* outside 0..23 or a minute outside 0..59.
ParseReminderTime(input, t) ==
    CASE input.kind = "in" ->
           \* re.match(r"in (\d+) (seconds|minutes|hours)")
           Parsed(t + input.value *
                    (CASE input.unit = "seconds" -> 1
                       [] input.unit = "minutes" -> SecondsPerMinute
                       [] OTHER -> SecondsPerHour))
      [] input.kind = "today" ->
           IF input.hour \notin 0..23 \/ input.minute \notin 0..59
           THEN Failed
           ELSE LET at == DayStart(t) + input.hour * SecondsPerHour
                                      + input.minute * SecondsPerMinute
                IN  Parsed(IF at <= t THEN at + SecondsPerDay ELSE at)
      [] input.kind = "tomorrow" ->
           IF input.hour \notin 0..23 \/ input.minute \notin 0..59
           THEN Failed
           ELSE Parsed(DayStart(t + SecondsPerDay)
                       + input.hour * SecondsPerHour
                       + input.minute * SecondsPerMinute)
      [] input.kind = "absolute" -> Parsed(StrpMinute(input.minute))
      [] OTHER -> Failed

\* the datetime strings create_reminder is called with
TimeInputs ==
    { [kind |-> "in", value |-> 2, unit |-> "seconds"],
      [kind |-> "in", value |-> 40, unit |-> "seconds"],
      [kind |-> "in", value |-> 1, unit |-> "minutes"],
      [kind |-> "today", hour |-> 0, minute |-> 1],
      [kind |-> "today", hour |-> 24, minute |-> 0],
      [kind |-> "today", hour |-> -1, minute |-> 0],
      [kind |-> "tomorrow", hour |-> 0, minute |-> 0],
      [kind |-> "tomorrow", hour |-> 0, minute |-> -5],
      [kind |-> "absolute", minute |-> 1],
      [kind |-> "unparseable"] }

\* the requested delay in seconds of an "in N unit" input, -1 for the others
RelativeOffset(input) ==
    IF input.kind = "in"
    THEN ParseReminderTime(input, 0).t
    ELSE -1

----------------------------------------------------------------------------
(* Actions of the reminder store *)

Tick ==
    /\ now + TickSeconds <= MaxTime
    /\ now' = now + TickSeconds
    /\ UNCHANGED <<file, running, spc, sLocal, sLoaded, sNow, sIdx, wakeAt,
                   fpc, fLocal, fResult, nCreates, created, written,
                   everNotified, events, failed>>
    /\ UNCHANGED <<regVars, startVars, ctxVars>>

\* start_reminder_scheduler without its guard: every call starts a thread
StartReminderScheduler_Unguarded ==
    /\ nStarts < MaxStarts
    /\ ~shutdown
    /\ nStarts' = nStarts + 1
    /\ running' = TRUE
    /\ nWorkers' = nWorkers + 1
    /\ spc' = [spc EXCEPT ![nWorkers + 1] = "check"]
    /\ UNCHANGED <<nExited, mainFlag, shutdown>>
    /\ UNCHANGED <<now, file, sLocal, sLoaded, sNow, sIdx, wakeAt,
                   fpc, fLocal, fResult, nCreates, created, written,
                   everNotified, events, failed>>
    /\ UNCHANGED <<regVars, ctxVars>>

\* start_reminder_scheduler(), which main.py calls before its finally
\* block: the thread is created only when the flag is not set, and the new
\* thread, the next of Threads, begins reminder_scheduler at its while test
StartReminderScheduler ==
    /\ nStarts < MaxStarts
    /\ ~shutdown
    /\ nStarts' = nStarts + 1
    /\ IF ~running
       THEN /\ running' = TRUE
            /\ nWorkers' = nWorkers + 1
            /\ spc' = [spc EXCEPT ![nWorkers + 1] = "check"]
       ELSE UNCHANGED <<running, nWorkers, spc>>
    /\ UNCHANGED <<nExited, mainFlag, shutdown>>
    /\ UNCHANGED <<now, file, sLocal, sLoaded, sNow, sIdx, wakeAt,
                   fpc, fLocal, fResult, nCreates, created, written,
                   everNotified, events, failed>>
    /\ UNCHANGED <<regVars, ctxVars>>

\* thread t: the while test with the flag set, load_reminders, now
SchedLoad(t) ==
    /\ spc[t] = "check"
    /\ running
    /\ now >= wakeAt[t]
    /\ sLocal' = [sLocal EXCEPT ![t] = LoadReminders(file)]
    /\ sLoaded' = [sLoaded EXCEPT ![t] = LoadReminders(file)]
    /\ sNow' = [sNow EXCEPT ![t] = now]
    /\ sIdx' = [sIdx EXCEPT ![t] = 1]
    /\ wakeAt' = [wakeAt EXCEPT ![t] = 0]
    /\ spc' = [spc EXCEPT ![t] = "scan"]
    /\ UNCHANGED <<now, file, running, fpc, fLocal, fResult,
                   nCreates, created, written, everNotified, events, failed>>
    /\ UNCHANGED <<regVars, startVars, ctxVars>>

\* thread t: one iteration of the for loop, up to the call of
\* save_reminders.  When show_reminder_notification raises, the alert is
\* out, the entry is not marked, nothing is saved, the rest of the list is
\* not visited and the except clause of the cycle sleeps 60 seconds.
SchedVisit(t) ==
    /\ spc[t] = "scan"
    /\ sIdx[t] <= Len(sLocal[t])
    /\ IF ShouldFire(sLocal[t][sIdx[t]], sNow[t])
       THEN /\ events' = Append(events, [id   |-> sLocal[t][sIdx[t]].id,
                                         task |-> sLocal[t][sIdx[t]].task,
                                         at   |-> now])
            /\ IF NotificationRaises(sLocal[t][sIdx[t]])
               THEN /\ failed' = TRUE
                    /\ wakeAt' = [wakeAt EXCEPT ![t] = now + ErrorSleep]
                    /\ spc' = [spc EXCEPT ![t] = "check"]
                    /\ sLocal' = [sLocal EXCEPT ![t] = <<>>]
                    /\ sLoaded' = [sLoaded EXCEPT ![t] = <<>>]
                    /\ sNow' = [sNow EXCEPT ![t] = 0]
                    /\ sIdx' = [sIdx EXCEPT ![t] = 1]
               ELSE /\ sLocal' = [sLocal EXCEPT
                                    ![t] = MarkNotified(sLocal[t], sIdx[t])]
                    /\ spc' = [spc EXCEPT ![t] = "save"]
                    /\ UNCHANGED <<sIdx, sLoaded, sNow, wakeAt, failed>>
       ELSE /\ sIdx' = [sIdx EXCEPT ![t] = sIdx[t] + 1]
            /\ UNCHANGED <<events, sLocal, spc, sLoaded, sNow, wakeAt,
                           failed>>
    /\ UNCHANGED <<now, file, running, fpc, fLocal,
                   fResult, nCreates, created, written, everNotified>>
    /\ UNCHANGED <<regVars, startVars, ctxVars>>

\* thread t, save_reminders: open(REMINDERS_FILE, "w").  When open raises,
\* save_reminders passes and returns, and the for loop goes on.
SchedSaveOpen(t) ==
    /\ spc[t] = "save"
    /\ IF file.writable
       THEN /\ file' = TruncatedFile(file)
            /\ spc' = [spc EXCEPT ![t] = "write"]
            /\ UNCHANGED <<sIdx, failed>>
       ELSE /\ failed' = TRUE
            /\ sIdx' = [sIdx EXCEPT ![t] = sIdx[t] + 1]
            /\ spc' = [spc EXCEPT ![t] = "scan"]
            /\ UNCHANGED file
    /\ UNCHANGED <<now, running, sLocal, sLoaded, sNow, wakeAt, fpc,
                   fLocal, fResult, nCreates, created, written,
                   everNotified, events>>
    /\ UNCHANGED <<regVars, startVars, ctxVars>>

\* thread t, save_reminders: json.dump and close
SchedSaveDump(t) ==
    /\ spc[t] = "write"
    /\ LET dumped == Dump(file, sLocal[t])
       IN  /\ file' = dumped
           /\ everNotified' = IF dumped.valid
                              THEN everNotified \cup NotifiedIn(sLocal[t])
                              ELSE everNotified
    /\ sIdx' = [sIdx EXCEPT ![t] = sIdx[t] + 1]
    /\ spc' = [spc EXCEPT ![t] = "scan"]
    /\ UNCHANGED <<now, running, sLocal, sLoaded, sNow, wakeAt, fpc, fLocal,
                   fResult, nCreates, created, written, events, failed>>
    /\ UNCHANGED <<regVars, startVars, ctxVars>>

\* thread t, the end of the for loop: time.sleep(30).  The cycle's locals
\* are dead from here on (the next cycle assigns them before reading them).
SchedSleep(t) ==
    /\ spc[t] = "scan"
    /\ sIdx[t] > Len(sLocal[t])
    /\ wakeAt' = [wakeAt EXCEPT ![t] = now + CycleSleep]
    /\ spc' = [spc EXCEPT ![t] = "check"]
    /\ sLocal' = [sLocal EXCEPT ![t] = <<>>]
    /\ sLoaded' = [sLoaded EXCEPT ![t] = <<>>]
    /\ sNow' = [sNow EXCEPT ![t] = 0]
    /\ sIdx' = [sIdx EXCEPT ![t] = 1]
    /\ UNCHANGED <<now, file, running, fpc,
                   fLocal, fResult, nCreates, created, written,
                   everNotified, events, failed>>
    /\ UNCHANGED <<regVars, startVars, ctxVars>>

\* thread t: the while test when the flag is not set ends the loop and the
\* thread
SchedExit(t) ==
    /\ spc[t] = "check"
    /\ ~running
    /\ now >= wakeAt[t]
    /\ spc' = [spc EXCEPT ![t] = "done"]
    /\ wakeAt' = [wakeAt EXCEPT ![t] = 0]
    /\ nExited' = nExited + 1
    /\ UNCHANGED <<now, file, running, sLocal, sLoaded, sNow, sIdx, fpc,
                   fLocal, fResult, nCreates, created, written,
                   everNotified, events, failed>>
    /\ UNCHANGED <<nStarts, nWorkers, mainFlag, shutdown>>
    /\ UNCHANGED <<regVars, ctxVars>>

\* the stop signal of the loop: its caller sets
\* localtools.reminder_scheduler_running to False
StopSignal ==
    /\ running
    /\ running' = FALSE
    /\ UNCHANGED <<now, file, spc, sLocal, sLoaded, sNow, sIdx, wakeAt,
                   fpc, fLocal, fResult, nCreates, created, written,
                   everNotified, events, failed>>
    /\ UNCHANGED <<regVars, startVars, ctxVars>>

\* the finally block of main.py: `reminder_scheduler_running = False`
\* assigns the name main.py got from its import; the flag of localtools,
\* which the loop reads, is another variable
Shutdown ==
    /\ ~shutdown
    /\ shutdown' = TRUE
    /\ mainFlag' = FALSE
    /\ UNCHANGED schedVars
    /\ UNCHANGED <<nStarts, nWorkers, nExited>>
    /\ UNCHANGED <<regVars, ctxVars>>

\* create_reminder up to the call of save_reminders
CreateReminder(input) ==
    /\ fpc = "idle"
    /\ nCreates < MaxCreates
    /\ LET p == ParseReminderTime(input, now)
       IN  IF p.ok
           THEN LET reminders == LoadReminders(file)
                    task == nCreates + 1
                IN  /\ fLocal' = Append(reminders,
                                   NewReminder(reminders, task, p.t, now))
                    /\ nCreates' = nCreates + 1
                    /\ created' = Append(created,
                                    [at     |-> now,
                                     offset |-> RelativeOffset(input),
                                     id     |-> Len(reminders) + 1,
                                     datetime |-> StrfMinute(p.t),
                                     unread |-> Unread(file)])
                    /\ fpc' = "save"
                    /\ UNCHANGED fResult
           ELSE /\ fResult' = "error"
                /\ UNCHANGED <<fLocal, nCreates, created, fpc>>
    /\ UNCHANGED <<now, file, running, spc, sLocal, sLoaded, sNow, sIdx,
                   wakeAt, written, everNotified, events, failed>>
    /\ UNCHANGED <<regVars, startVars, ctxVars>>

\* save_reminders in create_reminder: open(REMINDERS_FILE, "w").  When open
\* raises, save_reminders passes and returns, and create_reminder returns
\* its success text with nothing stored.
CreateSaveOpen ==
    /\ fpc = "save"
    /\ IF file.writable
       THEN /\ file' = TruncatedFile(file)
            /\ fpc' = "write"
            /\ UNCHANGED <<fLocal, fResult, failed>>
       ELSE /\ failed' = TRUE
            /\ fResult' = "created"
            /\ fLocal' = <<>>
            /\ fpc' = "idle"
            /\ UNCHANGED file
    /\ UNCHANGED <<now, running, spc, sLocal, sLoaded, sNow, sIdx, wakeAt,
                   nCreates, created, written, everNotified, events>>
    /\ UNCHANGED <<regVars, startVars, ctxVars>>

\* save_reminders in create_reminder: json.dump and close, then the return
\* (the call's local list is gone with it)
CreateSaveDump ==
    /\ fpc = "write"
    /\ LET dumped == Dump(file, fLocal)
       IN  /\ file' = dumped
           /\ written' = IF dumped.valid
                         THEN written \cup {fLocal[Len(fLocal)].task}
                         ELSE written
           /\ everNotified' = IF dumped.valid
                              THEN everNotified \cup NotifiedIn(fLocal)
                              ELSE everNotified
    /\ fResult' = "created"
    /\ fLocal' = <<>>
    /\ fpc' = "idle"
    /\ UNCHANGED <<now, running, spc, sLocal, sLoaded, sNow, sIdx, wakeAt,
                   nCreates, created, events, failed>>
    /\ UNCHANGED <<regVars, startVars, ctxVars>>

\* no thread has a cycle under way
NoCycle ==
    /\ sLocal = [t \in Threads |-> <<>>]
    /\ sLoaded = [t \in Threads |-> <<>>]
    /\ sNow = [t \in Threads |-> 0]
    /\ sIdx = [t \in Threads |-> 1]
    /\ wakeAt = [t \in Threads |-> 0]

SchedInit ==
    /\ now = 0
    /\ file = EmptyFile
    /\ running = FALSE
    /\ spc = [t \in Threads |-> "none"]
    /\ NoCycle
    /\ fpc = "idle"
    /\ fLocal = <<>>
    /\ fResult = "none"
    /\ nCreates = 0
    /\ created = <<>>
    /\ written = {}
    /\ everNotified = {}
    /\ events = <<>>
    /\ failed = FALSE

Init == SchedInit /\ RegInit /\ StartInit /\ CtxIdle

Next ==
    \/ Tick
    \/ StartReminderScheduler
    \/ \E t \in Threads : SchedLoad(t)
    \/ \E t \in Threads : SchedVisit(t)
    \/ \E t \in Threads : SchedSaveOpen(t)
    \/ \E t \in Threads : SchedSaveDump(t)
    \/ \E t \in Threads : SchedSleep(t)
    \/ \E input \in TimeInputs : CreateReminder(input)
    \/ CreateSaveOpen
    \/ CreateSaveDump

\* the scheduler thread racing with create_reminder on the foreground path
Spec == Init /\ [][Next]_vars

----------------------------------------------------------------------------
(* The scheduler as the only writer of the store *)

\* the minutes a stored reminder may name
StoredMinutes == 0..(MaxTime \div SecondsPerMinute)

\* stores of up to MaxStore reminders with ids 1..n in order, any flags, and
\* descriptions from the given set
StoresWith(descriptions) ==
    UNION { { [k \in 1..n |-> [id          |-> k,
                               task        |-> k,
                               description |-> f[k].description,
                               datetime    |-> f[k].datetime,
                               created_at  |-> 0,
                               completed   |-> f[k].completed,
                               notified    |-> f[k].notified]] :
              f \in [1..n -> [description : descriptions,
                              datetime : StoredMinutes,
                              completed : BOOLEAN,
                              notified : BOOLEAN]] } :
            n \in 0..MaxStore }

\* stores create_reminder leaves behind
InitialStores == StoresWith({""})

\* stores with an entry create_reminder did not write: it has no description
ForeignStores == StoresWith({"", Missing}) \ InitialStores

\* the files the scheduler may find: written by create_reminder, the same
\* made read-only, or holding a foreign entry
SchedulerFiles ==
    { DumpedFile(s) : s \in InitialStores }
        \cup { Unwritable(DumpedFile(s)) : s \in InitialStores }
        \cup { DumpedFile(s) : s \in ForeignStores }

\* the store is some file; no thread, no call
StoreAtRest ==
    /\ RegInit
    /\ StartInit
    /\ CtxIdle
    /\ now = 0
    /\ running = FALSE
    /\ spc = [t \in Threads |-> "none"]
    /\ NoCycle
    /\ fpc = "idle"
    /\ fLocal = <<>>
    /\ fResult = "none"
    /\ nCreates = 0
    /\ created = <<>>
    /\ written = {}
    /\ events = <<>>
    /\ failed = FALSE

SingleWriterInit ==
    /\ StoreAtRest
    /\ file \in SchedulerFiles
    /\ everNotified = NotifiedIn(file.reminders)

SingleWriterNext ==
    \/ Tick
    \/ StartReminderScheduler
    \/ \E t \in Threads : SchedLoad(t)
    \/ \E t \in Threads : SchedVisit(t)
    \/ \E t \in Threads : SchedSaveOpen(t)
    \/ \E t \in Threads : SchedSaveDump(t)
    \/ \E t \in Threads : SchedSleep(t)

SingleWriterSpec == SingleWriterInit /\ [][SingleWriterNext]_vars

----------------------------------------------------------------------------
(* The scheduler and create_reminder on the clock: a cycle and a call take *)
(* no time next to the 30 seconds of the sleep, so time passes only while  *)
(* every loop is in its sleep and no call is under way                     *)

\* thread t is created and has not left its loop
Alive(t) == spc[t] \notin {"none", "done"}

TimedTick ==
    /\ running
    /\ \E t \in Threads : Alive(t)
    /\ \A t \in Threads : Alive(t) => (spc[t] = "check" /\ now < wakeAt[t])
    /\ fpc = "idle"
    /\ Tick

TimedNext ==
    \/ TimedTick
    \/ StartReminderScheduler
    \/ \E t \in Threads : SchedLoad(t)
    \/ \E t \in Threads : SchedVisit(t)
    \/ \E t \in Threads : SchedSaveOpen(t)
    \/ \E t \in Threads : SchedSaveDump(t)
    \/ \E t \in Threads : SchedSleep(t)
    \/ \E input \in TimeInputs : CreateReminder(input)
    \/ CreateSaveOpen
    \/ CreateSaveDump

TimedSpec == Init /\ [][TimedNext]_vars

----------------------------------------------------------------------------
(* create_reminder over a store that may be unreadable or read-only *)

UnreadableStoreInit ==
    /\ StoreAtRest
    /\ file \in { DumpedFile(s) : s \in InitialStores }
                 \cup { DamagedFile(s) : s \in InitialStores }
                 \cup { UnreadableFile(s) : s \in InitialStores }
                 \cup { Unwritable(DumpedFile(s)) : s \in InitialStores }
    /\ everNotified = {}

UnreadableStoreNext ==
    \/ Tick
    \/ \E input \in TimeInputs : CreateReminder(input)
    \/ CreateSaveOpen
    \/ CreateSaveDump

UnreadableStoreSpec == UnreadableStoreInit /\ [][UnreadableStoreNext]_vars

----------------------------------------------------------------------------
(* The life of the scheduler loops: starts, stop signals and the end of    *)
(* the application                                                         *)

LifecycleInit ==
    /\ StoreAtRest
    /\ file \in { DumpedFile(s) : s \in { r \in InitialStores : Len(r) <= 1 } }
    /\ everNotified = NotifiedIn(file.reminders)

LifecycleNext ==
    \/ SingleWriterNext
    \/ \E t \in Threads : SchedExit(t)
    \/ StopSignal
    \/ Shutdown

LifecycleSpec == LifecycleInit /\ [][LifecycleNext]_vars

----------------------------------------------------------------------------
(* The registry on its own: discoveries and invocations in any order *)

RegistryInit == SchedInit /\ RegInit /\ StartInit /\ CtxIdle

RegistryNext ==
    \/ \E response \in DiscoveryResponses : Discover(response)
    \/ \E tool_name \in ToolNames, outcome \in Outcomes :
           Invoke(tool_name, outcome)

RegistrySpec == RegistryInit /\ [][RegistryNext]_vars

----------------------------------------------------------------------------
(* The orchestration layer: the import of model.py and any number of       *)
(* refreshes, whatever the server answers                                  *)

OrchestrationInit == SchedInit /\ RegInit /\ StartInit /\ CtxIdle

OrchestrationNext ==
    \/ \E health \in HealthChecks, response \in DiscoveryResponses :
           ImportModel(health, response)
    \/ \E health \in HealthChecks, response \in DiscoveryResponses :
           RefreshRemoteTools(health, response)

OrchestrationSpec == OrchestrationInit /\ [][OrchestrationNext]_vars

----------------------------------------------------------------------------
(* The context store and its file: one backing file and the               *)
(* ContextManager objects constructed over it, one after the other, which  *)
(* record turns, save, clear and reset                                     *)

\* time passes between two operations of the store
ContextTick == now < MaxContextTime /\ Tick

ContextInit ==
    /\ SchedInit
    /\ RegInit
    /\ StartInit
    /\ context_file \in InitialFiles
    /\ max_history \in 1..MaxCap
    /\ current_session_id = StrfSecond(now)
    /\ user_profile = LoadContext(context_file).user_profile
    /\ history = LoadContext(context_file).history
    /\ current_session = LoadContext(context_file).current_session
    /\ sessionLog = LastN(LoadContext(context_file).history, SessionCapacity)
    /\ nCalls = 0
    /\ turnsLeft = MaxTurnsStored
    /\ op = Op("load", FALSE, 0, <<>>, <<>>)
    /\ lastUse = NeverUsed
    /\ lifetime = 1
    /\ recorded = {}
    /\ stale = 0

ContextNext ==
    \/ ContextTick
    \/ Construct
    \/ \E user_input \in UserInputs : AddConversationTurn(user_input)
    \/ SaveSession
    \/ ClearSession
    \/ CleanContextFile

ContextSpec == ContextInit /\ [][ContextNext]_vars

----------------------------------------------------------------------------
(* One ContextManager that records turns, is asked for context and is      *)
(* cleared, over a file that was absent or saved by an earlier run         *)

TurnsInit ==
    /\ SchedInit
    /\ RegInit
    /\ StartInit
    /\ context_file \in {MissingFile, StoredFile}
    /\ max_history \in 1..MaxCap
    /\ current_session_id = StrfSecond(now)
    /\ user_profile = LoadContext(context_file).user_profile
    /\ history = LoadContext(context_file).history
    /\ current_session = LoadContext(context_file).current_session
    /\ sessionLog = LastN(LoadContext(context_file).history, SessionCapacity)
    /\ nCalls = 0
    /\ turnsLeft = MaxTurns
    /\ op = Op("load", FALSE, 0, <<>>, <<>>)
    /\ lastUse = NeverUsed
    /\ lifetime = 1
    /\ recorded = {}
    /\ stale = 0

TurnsNext ==
    \/ \E user_input \in UserInputs : AddConversationTurn(user_input)
    \/ \E current_input \in Queries : RelevantContext(current_input)
    \/ ClearSession

TurnsSpec == TurnsInit /\ [][TurnsNext]_vars

----------------------------------------------------------------------------
(* The context store of the application: model.py constructs it, main.py   *)
(* resets it with clean_context_file at its start, and turns, saves and    *)
(* queries follow                                                          *)

ResetInit ==
    /\ SchedInit
    /\ RegInit
    /\ StartInit
    /\ context_file \in {MissingFile, StoredFile, ReadOnly(StoredFile),
                         WriteOnly(StoredFile)}
    /\ max_history = DefaultMaxHistory
    /\ current_session_id = StrfSecond(now)
    /\ user_profile = LoadContext(context_file).user_profile
    /\ history = LoadContext(context_file).history
    /\ current_session = LoadContext(context_file).current_session
    /\ sessionLog = LastN(LoadContext(context_file).history, SessionCapacity)
    /\ nCalls = 0
    /\ turnsLeft = MaxTurnsStored
    /\ op = Op("load", FALSE, 0, <<>>, <<>>)
    /\ lastUse = NeverUsed
    /\ lifetime = 1
    /\ recorded = {}
    /\ stale = 0

ResetNext ==
    \/ CleanContextFile
    \/ \E user_input \in UserInputs : AddConversationTurn(user_input)
    \/ SaveSession
    \/ \E current_input \in Queries : RelevantContext(current_input)

ResetSpec == ResetInit /\ [][ResetNext]_vars

----------------------------------------------------------------------------
(* Properties of the reminder store *)

\* the seconds between a reminder's stored fire time and t
Elapsed(r, t) == t - r.datetime * 60

\* scheduler thread t is inside a cycle
InCycle(t) == spc[t] \in {"scan", "save", "write"}

\* C1: with the scheduler as the only writer of the store, an obligation
\* persisted with notified = True is never notified (again), whatever the
\* store holds and whether or not it can be written; and as long as every
\* cycle has marked and saved what it notified (no save and no cycle has
\* raised), no obligation is notified more than once, however many cycles
\* run.
C1_FiresAtMostOnce ==
    /\ ~failed =>
           \A i, j \in DOMAIN events :
               events[i].id = events[j].id => i = j
    /\ \A t \in Threads :
           \A k \in 1..Len(file.reminders) :
               (file.valid /\ file.reminders[k].notified)
                   => ~(/\ spc[t] = "scan"
                        /\ sIdx[t] = k
                        /\ k <= Len(sLocal[t])
                        /\ ShouldFire(sLocal[t][k], sNow[t]))

\* C1 witness: an obligation was notified and persisted, and a later cycle,
\* run while its 60 second window is still open, has scanned past it.
C1_Witness ==
    \E i \in DOMAIN events :
        \E k \in 1..Len(sLocal[1]) :
            /\ spc[1] = "scan"
            /\ sNow[1] > events[i].at
            /\ k < sIdx[1]
            /\ sLocal[1][k].id = events[i].id
            /\ file.valid
            /\ file.reminders[k].notified
            /\ 0 <= Elapsed(sLocal[1][k], sNow[1])
            /\ Elapsed(sLocal[1][k], sNow[1]) <= 60
            /\ Len(events) = 1
            /\ ~failed

\* C2 (as claimed): in every interleaving of a scheduler cycle with
\* create_reminder no obligation id is notified twice, and a persisted
\* notified = True is never reverted to False.
C2_CriticalSection ==
    /\ \A i, j \in DOMAIN events :
           events[i].id = events[j].id => i = j
    /\ file.valid =>
           \A k \in 1..Len(file.reminders) :
               <<file.reminders[k].id, file.reminders[k].task>>
                       \in everNotified
                   => file.reminders[k].notified

\* C3 (as claimed): a reminder create_reminder has written stays in the store.
C3_NeverDeleted ==
    file.valid =>
        \A t \in written :
            \E k \in 1..Len(file.reminders) : file.reminders[k].task = t

\* C4, the state part: during a cycle, an entry that was completed, already
\* notified, not yet due or past its window when the cycle read the store is
\* exactly as it was read.
C4_NotDueUnchanged ==
    \A t \in Threads :
        InCycle(t) =>
            /\ Len(sLocal[t]) = Len(sLoaded[t])
            /\ \A k \in 1..Len(sLoaded[t]) :
                   (\/ sLoaded[t][k].completed
                    \/ sLoaded[t][k].notified
                    \/ Elapsed(sLoaded[t][k], sNow[t]) < 0
                    \/ Elapsed(sLoaded[t][k], sNow[t]) > 60)
                       => sLocal[t][k] = sLoaded[t][k]

\* C4, the step part: a notification is emitted only by the scheduler, one at
\* a time, for the entry the scan is at, and only if that entry as read at
\* the start of the cycle was not completed, not notified and in its window.
C4_EmitsOnlyWhenDue ==
    events' # events =>
        \E t \in Threads :
            /\ spc[t] = "scan"
            /\ sIdx[t] \in 1..Len(sLoaded[t])
            /\ events' = Append(events, [id   |-> sLoaded[t][sIdx[t]].id,
                                         task |-> sLoaded[t][sIdx[t]].task,
                                         at   |-> now])
            /\ ~sLoaded[t][sIdx[t]].completed
            /\ ~sLoaded[t][sIdx[t]].notified
            /\ 0 <= Elapsed(sLoaded[t][sIdx[t]], sNow[t])
            /\ Elapsed(sLoaded[t][sIdx[t]], sNow[t]) <= 60

\* C4: in every scheduler cycle a notification is emitted for an obligation
\* only if, in the store as read at the start of the cycle, it is not
\* completed, not notified and 0 <= now - fire_at <= 60; any other obligation
\* is not fired and keeps its notified flag.
C4_FiresOnlyInWindow ==
    /\ []C4_NotDueUnchanged
    /\ [][C4_EmitsOnlyWhenDue]_vars

\* C4 witness: a cycle over two reminders has fired one (due, now notified)
\* and has left the other as it was read and without a notification: that
\* one is completed, not notified, and inside its 60-second window.
C4_Witness ==
    /\ spc[1] = "scan"
    /\ Len(sLoaded[1]) = 2
    /\ sIdx[1] > 2
    /\ \E k \in 1..2 :
           /\ ~sLoaded[1][k].notified /\ sLocal[1][k].notified
           /\ \E i \in DOMAIN events : events[i].id = sLoaded[1][k].id
    /\ \E k \in 1..2 :
           /\ sLoaded[1][k].completed
           /\ ~sLoaded[1][k].notified
           /\ Elapsed(sLoaded[1][k], sNow[1]) \in 0..FireWindow
           /\ sLocal[1][k] = sLoaded[1][k]
           /\ \A i \in DOMAIN events : events[i].id # sLoaded[1][k].id

\* C5 (as claimed): a reminder created with a relative offset of N seconds
\* is notified once, no earlier than N and no later than N + 60 seconds
\* after its creation.
C5_RelativeOffsetWindow ==
    /\ \A i \in DOMAIN events :
           created[events[i].task].offset >= 0 =>
               /\ created[events[i].task].at
                      + created[events[i].task].offset <= events[i].at
               /\ events[i].at <= created[events[i].task].at
                      + created[events[i].task].offset + 60
    /\ \A i, j \in DOMAIN events :
           events[i].task = events[j].task => i = j

----------------------------------------------------------------------------
(* Properties of the capability registry *)

\* an entry with all four keys of a capability definition
WellFormed(e) ==
    /\ e.isDict
    /\ e.name # Missing
    /\ e.description # Missing
    /\ e.endpoint # Missing
    /\ e.method # NoMethod

\* the tools of a response, entry by entry
ToolsOf(entries) == [k \in 1..Len(entries) |-> LangchainTool(entries[k])]

\* the returned string reports a failure / a success
IsFailure(text) == Len(text) > 0 /\ text[1] = "<cross mark>"
IsSuccess(text) == Len(text) > 0 /\ text[1] = "<check mark>"

\* which of the four failures the remote service produced, "none" if none
FailureKind(o) ==
    CASE o.kind = "timeout" -> "timeout"
      [] o.kind = "connection_error" -> "connection"
      [] o.kind = "response" /\ o.status # "200" -> "http"
      [] o.kind = "response" /\ o.status = "200" /\ o.body.shape = "dict"
            /\ (\/ o.body.hasSuccess /\ ~o.body.success
                \/ ~o.body.hasSuccess /\ o.body.error # "<missing>")
           -> "application"
      [] OTHER -> "none"

\* C6 (as claimed): a discover_tools call that returns False leaves what
\* list_available_tools and get_tools return as it was before the call.
C6_FailedDiscoverChangesNothing ==
    [][(last'.op = "discover" /\ ~last'.ok)
          => /\ ListAvailableTools(tool_configs')
                    = ListAvailableTools(tool_configs)
             /\ GetTools(tools') = GetTools(tools)]_vars

\* C7 (as claimed), for responses whose entries are all well formed: after a
\* discover_tools call that returns True the descriptors and the tools are
\* exactly those of that response, none left over from an earlier discovery.
C7_SuccessfulDiscoverReplaces ==
    (/\ last.op = "discover"
     /\ last.ok
     /\ \A k \in 1..Len(last.response.entries) :
            WellFormed(last.response.entries[k]))
        => /\ GetTools(tools) = ToolsOf(last.response.entries)
           /\ \A n \in DOMAIN tool_configs :
                  \E k \in 1..Len(last.response.entries) :
                      last.response.entries[k] = tool_configs[n]

\* C8 (as claimed): a discovery whose response lists entries is not aborted
\* by a malformed one; its well-formed entries are registered, no malformed
\* entry is among the descriptors, and list_available_tools returns.
C8_MalformedEntriesSkipped ==
    (last.op = "discover" /\ last.response.kind = "tools")
        => /\ last.ok
           /\ \A k \in 1..Len(last.response.entries) :
                  LET e == last.response.entries[k]
                  IN  IF WellFormed(e)
                      THEN /\ e.name \in DOMAIN tool_configs
                           /\ \E i \in 1..Len(tools) :
                                  tools[i] = LangchainTool(e)
                      ELSE \A n \in DOMAIN tool_configs :
                               tool_configs[n] # e
           /\ ~ListAvailableTools(tool_configs).raised

\* C9: invoking a name that is not among the descriptors sends no request
\* and returns a failure string; it does not raise.
C9_AbsentNameNoRequest ==
    (last.op = "invoke" /\ last.name \notin DOMAIN tool_configs)
        => /\ ~last.sent
           /\ ~last.raised
           /\ IsFailure(last.text)

\* C9 witness: the registry holds descriptors and a name that is not one of
\* them has been invoked.
C9_Witness ==
    /\ last.op = "invoke"
    /\ DOMAIN tool_configs # {}
    /\ last.name \notin DOMAIN tool_configs

\* C10: an invocation never raises; a timeout, a connection failure, a
\* non-200 response and an application-level error each return a failure
\* string, any other answer to the request a success string; and the strings
\* of two different kinds of failure of the same tool differ.
C10_FailuresAreDistinctStrings ==
    /\ last.op = "invoke" => ~last.raised
    /\ (last.op = "invoke" /\ last.sent)
           => IF FailureKind(last.outcome) = "none"
              THEN IsSuccess(last.text)
              ELSE IsFailure(last.text)
    /\ (/\ last.op = "invoke" /\ last.sent
        /\ prev.op = "invoke" /\ prev.sent
        /\ last.name = prev.name
        /\ FailureKind(last.outcome) # FailureKind(prev.outcome))
           => last.text # prev.text

\* C10 witness: a registered tool timed out, and the call before it could
\* not connect.
C10_Witness ==
    /\ last.op = "invoke" /\ last.sent
    /\ prev.op = "invoke" /\ prev.sent
    /\ last.name = prev.name
    /\ last.name \in DOMAIN tool_configs
    /\ FailureKind(last.outcome) = "timeout"
    /\ FailureKind(prev.outcome) = "connection"

----------------------------------------------------------------------------
(* Properties of the context store *)

\* the last cap turns of h, in the order of h
LastTurns(h, cap) ==
    LET k == IF Len(h) < cap THEN Len(h) ELSE cap
    IN  [i \in 1..k |-> h[Len(h) - k + i]]

\* C11: after save_session, or an add_conversation_turn that autosaved, has
\* written the file, a new ContextManager over that file loads a profile
\* equal to the one in memory and a history equal to the last max_history
\* turns of the history in memory, in the same order.
C11_SaveLoadRoundTrip ==
    (op.op \in {"save_session", "add_conversation_turn"} /\ op.wrote) =>
        /\ LoadContext(context_file).user_profile = user_profile
        /\ LoadContext(context_file).history =
               LastTurns(history, max_history)

\* a save of a history longer than the cap and of a profile that has changed
C11_Witness ==
    /\ op.op = "save_session"
    /\ op.wrote
    /\ Len(history) > max_history
    /\ LoadContext(context_file).history # history
    /\ user_profile.frequently_used_commands # <<>>
    /\ user_profile.last_interaction # None

\* a file a load cannot read as written: absent, not to be opened, not
\* JSON, a user_profile with an unexpected key, or a conversations entry
\* that is no turn
Damaged(f) ==
    \/ f.kind # "object"
    \/ ~f.readable
    \/ f.has_profile /\ f.profile_data.unexpected
    \/ f.has_conversations
           /\ \E i \in DOMAIN f.conversations : ~f.conversations[i].wellformed

\* C12: a ContextManager constructed over a missing or damaged file has the
\* default profile, an empty history and an empty session window.
C12_DamagedFileLoadsFresh ==
    (op.op = "load" /\ Damaged(context_file)) =>
        /\ user_profile = DefaultProfile
        /\ history = <<>>
        /\ current_session = <<>>

\* C13: the session window never holds more than SessionCapacity turns, and
\* it holds the most recent turns put into it since it was last emptied, in
\* their order: all of them up to five, exactly the last five after more.
C13_WindowIsLastFive ==
    /\ Len(current_session) <= SessionCapacity
    /\ current_session = LastTurns(sessionLog, SessionCapacity)

\* a sixth turn has pushed the oldest one out of a full window
C13_Witness ==
    /\ op.op = "add_conversation_turn"
    /\ Len(sessionLog) > SessionCapacity
    /\ Len(current_session) = SessionCapacity
    /\ current_session # SubSeq(sessionLog, 1, SessionCapacity)

\* C14: the add_conversation_turn calls on a ContextManager that write the
\* backing file are the 5th, 10th, 15th, ... call and no other.
C14_AutosaveEveryFifthCall ==
    op.op = "add_conversation_turn" =>
        (op.wrote <=> op.call % AutosaveEvery = 0)

\* the whitespace-delimited, case-folded tokens of a string
Tokens(text) == Range(Split(Lower(text)))

\* the elements of a set of indices, ascending
Ascending(S) ==
    [k \in 1..Cardinality(S) |->
         CHOOSE i \in S : Cardinality({ j \in S : j < i }) = k - 1]

\* the up to RelevantLimit most recent turns of h that share a token with
\* the query, oldest first
RecentSharingToken(h, query) ==
    LET sharing == { i \in DOMAIN h :
                         Tokens(h[i].user_input) \cap Tokens(query) # {} }
        recent == { i \in sharing :
                        Cardinality({ j \in sharing : j > i })
                            < RelevantLimit }
    IN  [k \in 1..Cardinality(recent) |-> h[Ascending(recent)[k]]]

\* C15: get_relevant_context returns exactly the up to three most recent
\* turns of the full history whose user_input shares a whitespace-delimited,
\* case-folded token with the query, oldest first; nothing when no turn
\* shares a token or the history is empty.
C15_RelevantTurnsShareAToken ==
    op.op = "get_relevant_context" =>
        op.result = RecentSharingToken(history, op.query)

\* C16: after every add_conversation_turn, frequently_used_commands has at
\* most CommandsCap entries, whatever profile the ContextManager loaded.
C16_CommandsWithinCap ==
    op.op = "add_conversation_turn" =>
        Len(user_profile.frequently_used_commands) <= CommandsCap

\* the position of a keyword in command_keywords
KeywordIndex(command) ==
    CHOOSE k \in DOMAIN command_keywords : command_keywords[k] = command

\* C17: of two keywords in frequently_used_commands that turns have used,
\* the one used by the later turn stands later in the list.
C17_LaterUseStandsLater ==
    LET commands == user_profile.frequently_used_commands
        used == { i \in DOMAIN commands :
                      /\ commands[i] \in Range(command_keywords)
                      /\ lastUse[KeywordIndex(commands[i])] > 0 }
    IN  \A i, j \in used :
            lastUse[KeywordIndex(commands[i])]
                > lastUse[KeywordIndex(commands[j])] => i > j

\* C18: clear_session empties the session window and the history, makes
\* current_session_id an identifier other than the one before, and leaves
\* the profile and the backing file as they were.
C18_ClearSessionFrame ==
    [][(op'.op = "clear_session" /\ lifetime' = lifetime + 1) =>
           /\ current_session' = <<>>
           /\ history' = <<>>
           /\ current_session_id' # current_session_id
           /\ user_profile' = user_profile
           /\ context_file' = context_file]_vars

\* C19: every recorded turn has a session_id, and turns recorded in
\* different session lifetimes of a ContextManager have different ones.
C19_SessionIdNamesOneLifetime ==
    \A p, q \in recorded :
        /\ p[1] # None
        /\ p[1] = q[1] => p[2] = q[2]

----------------------------------------------------------------------------
(* Properties of start_reminder_scheduler *)

\* C20: a call of start_reminder_scheduler while the scheduler is running
\* changes nothing of the reminder subsystem: the flag stays set, no thread
\* is created and the running loop goes on where it was; there is never
\* more than one scheduler thread.
C20_StartIsIdempotent ==
    /\ [](nWorkers <= 1)
    /\ [][(nStarts' = nStarts + 1 /\ running) =>
             /\ running'
             /\ nWorkers' = nWorkers
             /\ schedVars' = schedVars]_vars

\* a second call, made while the loop of the first was running
C20_Witness ==
    /\ nStarts = 2
    /\ nWorkers = 1
    /\ running
    /\ Alive(1)

\* C21: the step in which the application's shutdown path signals stop
\* makes the flag the loop reads false, so that the loop ends at its next
\* while test.
C21_ShutdownClearsTheFlag ==
    [][(shutdown' /\ ~shutdown) => ~running']_vars

\* a datetime string that is none of "in N unit", "today HH:MM",
\* "tomorrow HH:MM" with a clock time, and "YYYY-MM-DD HH:MM"
NoTimeFormat(input) ==
    \/ input.kind \notin {"in", "today", "tomorrow", "absolute"}
    \/ /\ input.kind \in {"today", "tomorrow"}
       /\ ~(input.hour \in 0..23 /\ input.minute \in 0..59)

\* C22: a create_reminder call whose time string has none of the three
\* formats returns the failure result and creates nothing: the store file,
\* the list being built and the count of reminders created are unchanged,
\* and no save is begun.
C22_UnparseableCreatesNothing ==
    [][\A input \in TimeInputs :
           (NoTimeFormat(input) /\ CreateReminder(input))
               => /\ fResult' = "error"
                  /\ file' = file
                  /\ fLocal' = fLocal
                  /\ fpc' = "idle"
                  /\ nCreates' = nCreates
                  /\ created' = created]_vars

\* C22 witness: a call has returned the failure result after an earlier
\* call stored a reminder, and the store still holds exactly that reminder.
C22_Witness ==
    /\ fResult = "error"
    /\ fpc = "idle"
    /\ nCreates = 1
    /\ file.valid
    /\ Len(file.reminders) = 1
    /\ written = {1}

\* C23 (as claimed): no two obligations in the store share an id, and every
\* obligation created has an id greater than the id of every obligation
\* created before it (created lists the calls in their order).
C23_IdsUniqueAndMonotonic ==
    /\ file.valid =>
           \A i, j \in DOMAIN file.reminders :
               file.reminders[i].id = file.reminders[j].id => i = j
    /\ \A i, j \in DOMAIN created :
           i < j => created[i].id < created[j].id

\* C28 (as claimed): when a create_reminder call that could not read the
\* store has returned, every obligation the store held before the call is
\* still in the store.
C28_UnreadableStoreKept ==
    (fpc = "idle" /\ created # <<>>) =>
        \A k \in DOMAIN created[Len(created)].unread :
            /\ file.valid
            /\ \E j \in DOMAIN file.reminders :
                   file.reminders[j] = created[Len(created)].unread[k]

\* C24: every add_conversation_turn call puts its turn (the last entry of
\* sessionLog, which lists the calls in their order) at the end of the
\* history, whose earlier entries stay as they were and in their order, and
\* leaves the session window equal to the last five of the window it found
\* followed by that turn; get_relevant_context and save_session change
\* neither list.
C24_TurnsInCallOrder ==
    [][/\ nCalls' = nCalls + 1 =>
              LET turn == sessionLog'[Len(sessionLog')]
              IN  /\ Len(history') = Len(history) + 1
                  /\ SubSeq(history', 1, Len(history)) = history
                  /\ history'[Len(history')] = turn
                  /\ current_session' =
                         LastTurns(Append(current_session, turn),
                                   SessionCapacity)
       /\ op'.op \in {"get_relevant_context", "save_session"} =>
              /\ history' = history
              /\ current_session' = current_session]_vars

\* C24 witness: six calls with different inputs have been recorded; the
\* history ends with the turns of the last two calls in their order, and
\* the window has dropped the first.
C24_Witness ==
    /\ nCalls = 6
    /\ op.op = "add_conversation_turn"
    /\ Len(history) = 6
    /\ history[1].user_input = AlreadyDone
    /\ history[5].user_input = CreateFile
    /\ history[6].user_input = AlreadyDone
    /\ Len(current_session) = SessionCapacity
    /\ current_session[1] = history[2]
    /\ history[2].user_input = CreateFile

\* C25 (as claimed): on a store whose load found the backing file
\* unparseable (the file can be opened for reading and for writing, and
\* json.load raises on it; nothing but clean_context_file changes such a
\* file, so it is as the load found it), a save_session writes the file,
\* and a load of the file it leaves returns the profile in memory and the
\* last max_history turns of the history in memory.
C25_SaveRepairsTheFile ==
    [][(/\ context_file.kind = "unparseable"
        /\ context_file.readable
        /\ context_file.writable
        /\ SaveSession)
           => /\ op'.wrote
              /\ context_file'.kind = "object"
              /\ LoadContext(context_file').user_profile = user_profile'
              /\ LoadContext(context_file').history =
                     LastTurns(history', max_history')]_vars

\* the turns of the history recorded since the last clean_context_file
FreshHistory == SubSeq(history, stale + 1, Len(history))

\* C26 (as claimed): after clean_context_file, a save_session or an autosave
\* writes only turns recorded since the reset, and get_relevant_context
\* returns only such turns.
C26_ResetDiscardsMemory ==
    /\ (op.op \in {"save_session", "add_conversation_turn"} /\ op.wrote) =>
           LoadContext(context_file).history =
               LastTurns(FreshHistory, max_history)
    /\ op.op = "get_relevant_context" =>
           op.result = GetRelevantContext(current_session, FreshHistory,
                                          op.query)

\* C30 (as claimed): once model.py is imported and has a manager, the names
\* of the tools in remote_tools, and of those among all_tools, are the names
\* list_available_tools() of the current manager returns; and a refresh that
\* failed has left remote_tools and what list_available_tools() returns as
\* they were before it.
C30_RemoteToolsMatchRegistry ==
    (remote_tools_manager /\ agent = "created") =>
        /\ ~ListAvailableTools(tool_configs).raised
        /\ ToolNamesOf(remote_tools) =
               DOMAIN ListAvailableTools(tool_configs).value
        /\ ToolNamesOf(all_tools) = ToolNamesOf(remote_tools)
        /\ (last.op = "refresh" /\ ~last.ok) =>
               RemoteView(remote_tools_manager, remote_tools, tool_configs)
                   = last.before

\* C29 (as claimed): with the loop running, an obligation created with a
\* stored fire time later than its creation is notified within 60 seconds
\* after that fire time: when the loop has gone to sleep until after the
\* end of the obligation's window, so that no later cycle can fall in it,
\* the notification has been emitted, inside the window.
C29_NotifiedInWindow ==
    \A task \in DOMAIN created :
        (/\ created[task].datetime * 60 > created[task].at
         /\ running
         /\ \E t \in Threads : Alive(t)
         /\ \A t \in Threads :
                Alive(t) =>
                    /\ spc[t] = "check"
                    /\ wakeAt[t] > created[task].datetime * 60 + FireWindow)
            => \E i \in DOMAIN events :
                   /\ events[i].task = task
                   /\ events[i].at >= created[task].datetime * 60
                   /\ events[i].at <= created[task].datetime * 60 + FireWindow

\* C27: after any starts and stop signals, at most one scheduler loop is
\* alive: of the threads created, all but one at most have left the loop.
C27_AtMostOneLoop ==
    Cardinality({ t \in Threads : Alive(t) }) <= 1

====
